---------------------------- MODULE Spec2Model ----------------------------
(***************************************************************************)
(* Model of the Ceed Ads decision pipeline: the v2 opportunity scorer,     *)
(* candidate generator, ranker and explorer, the feature flags, the        *)
(* strategy gate (decideAd) and the POST /api/requests handler.            *)
(*                                                                         *)
(* Text is a sequence of one-character strings.  Scores that the source    *)
(* writes as decimals with one digit (0.1, 0.3, 0.5, 0.8) are kept in      *)
(* tenths.                                                                 *)
(***************************************************************************)
EXTENDS Integers, Sequences, FiniteSets, TLC

VARIABLES
  contextText,   \* scorer: the message handed to scoreOpportunity
  scored,        \* scorer: what scoreOpportunity returned for contextText
  matched,       \* scorer: matchesKeyword(lowerText, k) for every keyword k
  scorerDone,    \* scorer: which of the calls have been made
  rescored,      \* scorer: scoreOpportunity for every language hint, on the message
                 \*         as given and on its lower-cased form
  env,           \* flags: process.env (V2_ENABLED, V2_APP_IDS, V2_PERCENTAGE,
                 \*        V2_TIMEOUT_MS)
  callerId,      \* flags: the caller isV2Enabled is asked about
  flagsCalled,   \* flags: isV2Enabled has been called
  v2Enabled,     \* flags: what it returned
  rollout,       \* flags: the calls made while the percentage was being raised
  rankerIn,      \* ranker: the arguments of rankCandidates
  rankerOut,     \* ranker: what it returned
  explorerIn,    \* explorer: the arguments of selectWithExploration and the random draws
  explorerOut,   \* explorer: what it returned, and how many draws it made
  call,          \* gate: the arguments of the decideAd call
  gate,          \* gate: where decideAd is, and its timer
  returns,       \* gate: the results decideAd has returned to its caller
  v2,            \* gate: the decideAdV2 run
  v1,            \* gate: the decideAdByKeyword run
  adsCache,      \* adsCache.ts: the catalog cache entry
  advertiserCache, \* adsCache.ts: the advertiser cache entries
  adsDb,         \* Firestore: the active documents of collection "ads"
  clock,         \* the time in ms (Date.now and performance.now)
  ticks,         \* how many times the clock has been advanced
  trace,         \* gate: the order of the events of the call
  posts,         \* POST /api/requests: the handlers, each with its locals
  requests,      \* Firestore: the documents of collection "requests"
  traffic,       \* POST /api/requests: the bodies the clients post
  gens,          \* generator: the generateCandidates runs, each with its locals
  genTraffic,    \* generator: the calls the callers make
  cacheLog,      \* generator: whose fetch wrote and served the catalog cache
  sdk            \* tracker: its state, the calls made and the events sent

scorerVars == <<contextText, scored, matched, scorerDone, rescored>>

flagsVars == <<env, callerId, flagsCalled, v2Enabled, rollout>>

rankerVars == <<rankerIn, rankerOut>>

explorerVars == <<explorerIn, explorerOut>>

gateVars ==
  <<call, gate, returns, v2, v1, adsCache, advertiserCache, adsDb, clock, ticks, trace>>

postVars == <<posts, requests, traffic>>

genVars == <<gens, genTraffic, cacheLog>>

sdkVars == <<sdk>>

vars == <<scorerVars, flagsVars, rankerVars, explorerVars, gateVars, postVars, genVars, sdkVars>>

None == "none"

(***************************************************************************)
(* Characters.                                                             *)
(***************************************************************************)
Letters ==
  {"a","b","c","d","e","f","g","h","i","j","k","l","m",
   "n","o","p","q","r","s","t","u","v","w","x","y","z"}

Capitals ==
  {"A","B","C","D","E","F","G","H","I","J","K","L","M",
   "N","O","P","Q","R","S","T","U","V","W","X","Y","Z"}

LowerOf ==
  [c \in Capitals |->
     CASE c = "A" -> "a" []
     c = "B" -> "b" []
     c = "C" -> "c" []
     c = "D" -> "d" []
     c = "E" -> "e" []
     c = "F" -> "f" []
     c = "G" -> "g" []
     c = "H" -> "h" []
     c = "I" -> "i" []
     c = "J" -> "j" []
     c = "K" -> "k" []
     c = "L" -> "l" []
     c = "M" -> "m" []
     c = "N" -> "n" []
     c = "O" -> "o" []
     c = "P" -> "p" []
     c = "Q" -> "q" []
     c = "R" -> "r" []
     c = "S" -> "s" []
     c = "T" -> "t" []
     c = "U" -> "u" []
     c = "V" -> "v" []
     c = "W" -> "w" []
     c = "X" -> "x" []
     c = "Y" -> "y" []
     c = "Z" -> "z"]

Digits == {"0","1","2","3","4","5","6","7","8","9"}

\* \w of a JavaScript regular expression: [A-Za-z0-9_]
WordChars == Letters \cup Capitals \cup Digits \cup {"_"}

IsWordChar(c) == c \in WordChars

\* \s of a JavaScript regular expression (the characters the model uses)
IsSpace(c) == c \in {" ", "\t", "\n"}

\* String.prototype.toLowerCase, one character
LowerChar(c) ==
  IF c \in Capitals THEN LowerOf[c] ELSE c

toLowerCase(s) == [i \in 1..Len(s) |-> LowerChar(s[i])]

\* String.prototype.includes
includes(text, k) ==
  \E p \in 1..(Len(text) - Len(k) + 1) :
     \A i \in 1..Len(k) : text[p + i - 1] = k[i]

(***************************************************************************)
(* constants.ts                                                            *)
(***************************************************************************)
\* T_LOW = 0.3, in tenths
T_LOW == 3

HIGH_INTENT_KEYWORDS ==
  << <<"p","u","r","c","h","a","s","e">>,
     <<"b","u","y">>,
     <<"o","r","d","e","r">>,
     <<"s","u","b","s","c","r","i","b","e">>,
     <<"p","r","i","c","i","n","g">>,
     <<"c","o","s","t">>,
     <<"d","i","s","c","o","u","n","t">>,
     <<"c","o","m","p","a","r","e">>,
     <<"v","s">>,
     <<"a","l","t","e","r","n","a","t","i","v","e">>,
     <<"r","e","c","o","m","m","e","n","d">>,
     <<"s","u","g","g","e","s","t">>,
     <<"b","e","s","t">>,
     <<"r","e","v","i","e","w">>,
     <<"d","e","a","l">>,
     <<"o","f","f","e","r">>,
     <<"s","a","l","e">>,
     <<"c","o","u","p","o","n">>,
     <<"f","r","e","e"," ","t","r","i","a","l">>,
     <<"s","i","g","n"," ","u","p">>,
     <<"g","e","t"," ","s","t","a","r","t","e","d">> >>

LOW_INTENT_KEYWORDS ==
  << <<"h","e","l","l","o">>,
     <<"h","i">>,
     <<"h","e","y">>,
     <<"t","h","a","n","k","s">>,
     <<"t","h","a","n","k"," ","y","o","u">>,
     <<"b","y","e">>,
     <<"g","o","o","d","b","y","e">>,
     <<"g","o","o","d"," ","m","o","r","n","i","n","g">>,
     <<"g","o","o","d"," ","n","i","g","h","t">>,
     <<"h","o","w"," ","a","r","e"," ","y","o","u">>,
     <<"w","h","a","t","'","s"," ","u","p">> >>

SENSITIVE_KEYWORDS ==
  << <<"s","a","d">>,
     <<"d","e","p","r","e","s","s","e","d">>,
     <<"a","n","x","i","o","u","s">>,
     <<"a","n","x","i","e","t","y">>,
     <<"s","u","i","c","i","d","e">>,
     <<"s","e","l","f","-","h","a","r","m">>,
     <<"m","e","d","i","c","a","t","i","o","n">>,
     <<"m","e","n","t","a","l"," ","h","e","a","l","t","h">>,
     <<"t","h","e","r","a","p","y">>,
     <<"c","o","u","n","s","e","l","i","n","g">>,
     <<"l","e","g","a","l">>,
     <<"l","a","w","s","u","i","t">>,
     <<"a","t","t","o","r","n","e","y">>,
     <<"e","m","e","r","g","e","n","c","y">>,
     <<"c","r","i","s","i","s">>,
     <<"a","b","u","s","e">>,
     <<"v","i","o","l","e","n","c","e">>,
     <<"d","e","a","t","h">>,
     <<"g","r","i","e","f">> >>

(***************************************************************************)
(* opportunityScorer.ts                                                    *)
(***************************************************************************)
\* \b at the gap in front of position p (p = Len(text) + 1 is the end)
WordBoundary(text, p) ==
  LET before == p > 1 /\ IsWordChar(text[p - 1])
      after  == p <= Len(text) /\ IsWordChar(text[p])
  IN  before # after

\* new RegExp(`\\b${keyword}\\b`, "i").test(text)
\* (the "i" flag: both sides compared in lower case)
RegexTest(text, keyword) ==
  \E p \in 1..(Len(text) - Len(keyword) + 1) :
     /\ WordBoundary(text, p)
     /\ \A i \in 1..Len(keyword) :
          LowerChar(text[p + i - 1]) = LowerChar(keyword[i])
     /\ WordBoundary(text, p + Len(keyword))

\* the plain-substring matcher the word-boundary fix replaced
matchesKeywordSubstring(text, keyword) == includes(text, keyword)

matchesKeyword(text, keyword) ==
  IF includes(keyword, <<" ">>)
    THEN includes(text, keyword)
    ELSE RegexTest(text, keyword)

\* for (const keyword of list) if (matchesKeyword(lowerText, keyword)) return ...
RECURSIVE AnyKeywordFrom(_, _, _)
AnyKeywordFrom(list, text, i) ==
  IF i > Len(list) THEN FALSE
  ELSE IF matchesKeyword(text, list[i]) THEN TRUE
  ELSE AnyKeywordFrom(list, text, i + 1)

\* lowerText.split(/\s+/).filter((w) => w.length > 0).length
WordCount(text) ==
  Cardinality({p \in 1..Len(text) :
                 /\ ~IsSpace(text[p])
                 /\ (p = 1 \/ IsSpace(text[p - 1]))})

OppResult(s, i) == [score |-> s, intent |-> i]

\* the same function with the chitchat and high-intent checks in the other order
\* Japanese messages scored by their length alone
scoreOpportunityByHint(text, language) ==
  LET lowerText == toLowerCase(text)
  IN  IF language # "jpn" /\ AnyKeywordFrom(SENSITIVE_KEYWORDS, lowerText, 1)
        THEN OppResult(0, "sensitive")
      ELSE IF language # "jpn" /\ AnyKeywordFrom(LOW_INTENT_KEYWORDS, lowerText, 1)
        THEN OppResult(1, "chitchat")
      ELSE IF language # "jpn" /\ AnyKeywordFrom(HIGH_INTENT_KEYWORDS, lowerText, 1)
        THEN OppResult(8, "high_commercial")
      ELSE IF WordCount(lowerText) < 3
        THEN OppResult(2, "low_intent")
      ELSE OppResult(5, "medium_commercial")

scoreOpportunityHighFirst(text, language) ==
  LET lowerText == toLowerCase(text)
  IN  IF AnyKeywordFrom(SENSITIVE_KEYWORDS, lowerText, 1)
        THEN OppResult(0, "sensitive")
      ELSE IF AnyKeywordFrom(HIGH_INTENT_KEYWORDS, lowerText, 1)
        THEN OppResult(8, "high_commercial")
      ELSE IF AnyKeywordFrom(LOW_INTENT_KEYWORDS, lowerText, 1)
        THEN OppResult(1, "chitchat")
      ELSE IF WordCount(lowerText) < 3
        THEN OppResult(2, "low_intent")
      ELSE OppResult(5, "medium_commercial")

scoreOpportunity(text, language) ==
  LET lowerText == toLowerCase(text)
  IN  IF AnyKeywordFrom(SENSITIVE_KEYWORDS, lowerText, 1)
        THEN OppResult(0, "sensitive")
      ELSE IF AnyKeywordFrom(LOW_INTENT_KEYWORDS, lowerText, 1)
        THEN OppResult(1, "chitchat")
      ELSE IF AnyKeywordFrom(HIGH_INTENT_KEYWORDS, lowerText, 1)
        THEN OppResult(8, "high_commercial")
      ELSE IF WordCount(lowerText) < 3
        THEN OppResult(2, "low_intent")
      ELSE OppResult(5, "medium_commercial")

SeqRange(s) == {s[i] : i \in 1..Len(s)}

\* the three lists, one after the other
AllKeywords == SENSITIVE_KEYWORDS \o LOW_INTENT_KEYWORDS \o HIGH_INTENT_KEYWORDS

(***************************************************************************)
(* The messages the scorer is run on: every keyword in a few surroundings, *)
(* and every concatenation of up to MaxPieces pieces.                      *)
(***************************************************************************)
MaxPieces == 3

Pieces ==
  { <<"s","a","d">>, <<"H","i">>, <<"b","u","y">>, <<"t","h","i","s">>,
    <<" ">>, <<"-">>, <<"s">>,
    <<"\n","i"," ","w","a","n","t","\t">> }

Surroundings ==
  { <<>>, <<" ">>, <<"x">>, <<"-">> }

RECURSIVE Concat(_)
Concat(ps) == IF ps = <<>> THEN <<>> ELSE Head(ps) \o Concat(Tail(ps))

PieceMessages ==
  UNION {{Concat(ps) : ps \in [1..n -> Pieces]} : n \in 0..MaxPieces}

KeywordMessages ==
  {pre \o k \o post : pre \in Surroundings, post \in Surroundings, k \in SeqRange(AllKeywords)}

Messages == PieceMessages \cup KeywordMessages

LanguageHints == {"eng", "jpn", "fra"}

NotScored == OppResult(-1, None)

NotMatched == [n \in 1..Len(AllKeywords) |-> FALSE]

\* a call scoreOpportunity(contextText, language)
Score ==
  /\ "score" \notin scorerDone
  /\ scorerDone' = scorerDone \cup {"score"}
  /\ \E language \in LanguageHints :
       scored' = scoreOpportunity(contextText, language)
  /\ UNCHANGED <<contextText, matched, rescored>>

\* the calls matchesKeyword(lowerText, keyword) on the scored message, for
\* every keyword of the three lists
Match ==
  /\ scorerDone = {"score"}
  /\ scorerDone' = scorerDone \cup {"match"}
  /\ matched' = [n \in 1..Len(AllKeywords) |->
                   matchesKeyword(toLowerCase(contextText), AllKeywords[n])]
  /\ UNCHANGED <<contextText, scored, rescored>>

NotRescored == [l \in LanguageHints |-> [form \in {"given", "lower"} |-> NotScored]]

\* the calls scoreOpportunity(contextText, language) and
\* scoreOpportunity(contextText.toLowerCase(), language) for every language
\* hint
Rescore ==
  /\ scorerDone = {"score", "match"}
  /\ scorerDone' = scorerDone \cup {"rescore"}
  /\ rescored' =
       [l \in LanguageHints |->
          [form \in {"given", "lower"} |->
             scoreOpportunity(IF form = "given" THEN contextText
                              ELSE toLowerCase(contextText), l)]]
  /\ UNCHANGED <<contextText, scored, matched>>

(***************************************************************************)
(* Claims about the opportunity scorer                                     *)
(***************************************************************************)
AnyMatch(list, text) == \E i \in 1..Len(list) : matchesKeyword(text, list[i])

\* C1: scoreOpportunity applies strict first-match priority: {0, sensitive}
\* if any sensitive keyword matches, else {0.1, chitchat} if any low-intent
\* keyword matches, else {0.8, high_commercial} if any high-intent keyword
\* matches, else {0.2, low_intent} if the message has fewer than 3
\* whitespace-delimited tokens, else {0.5, medium_commercial}.
C1_StrictPriority ==
  "score" \in scorerDone =>
    LET t == toLowerCase(contextText)
    IN  scored =
          CASE AnyMatch(SENSITIVE_KEYWORDS, t) -> OppResult(0, "sensitive")
            [] /\ ~AnyMatch(SENSITIVE_KEYWORDS, t)
               /\ AnyMatch(LOW_INTENT_KEYWORDS, t) -> OppResult(1, "chitchat")
            [] /\ ~AnyMatch(SENSITIVE_KEYWORDS, t)
               /\ ~AnyMatch(LOW_INTENT_KEYWORDS, t)
               /\ AnyMatch(HIGH_INTENT_KEYWORDS, t) -> OppResult(8, "high_commercial")
            [] OTHER -> IF WordCount(t) < 3
                          THEN OppResult(2, "low_intent")
                          ELSE OppResult(5, "medium_commercial")

\* a scored message in which a chitchat keyword and a high-intent keyword
\* co-occur, and no sensitive one
C1_Witness ==
  /\ "score" \in scorerDone
  /\ ~AnyMatch(SENSITIVE_KEYWORDS, toLowerCase(contextText))
  /\ AnyMatch(LOW_INTENT_KEYWORDS, toLowerCase(contextText))
  /\ AnyMatch(HIGH_INTENT_KEYWORDS, toLowerCase(contextText))
  /\ scored.intent = "chitchat"

\* the occurrence of k at p has a non-word character, or the end of the text, on each side
StandsAlone(text, k, p) ==
  /\ (p = 1 \/ ~IsWordChar(text[p - 1]))
  /\ (p + Len(k) > Len(text) \/ ~IsWordChar(text[p + Len(k)]))

OccursAt(text, k) ==
  {p \in 1..(Len(text) - Len(k) + 1) : \A i \in 1..Len(k) : text[p + i - 1] = k[i]}

IsSingleWord(k) == \A i \in 1..Len(k) : k[i] # " "

\* C2: a single-word keyword matches exactly when some occurrence of it is
\* surrounded by non-word characters or the ends of the message (so never
\* when it occurs only inside a longer word); a multi-word phrase matches
\* exactly when it is a literal substring.
C2_WordBoundary ==
  "match" \in scorerDone =>
    LET t == toLowerCase(contextText)
    IN  \A n \in 1..Len(AllKeywords) :
          LET k == AllKeywords[n]
          IN  IF IsSingleWord(k)
                THEN matched[n] <=> (\E p \in OccursAt(t, k) : StandsAlone(t, k, p))
                ELSE matched[n] <=> (OccursAt(t, k) # {})

\* "hi" occurs in the message, only inside longer words, and did not match
C2_Witness ==
  /\ "match" \in scorerDone
  /\ LET t == toLowerCase(contextText)
         hi == <<"h","i">>
     IN  /\ OccursAt(t, hi) # {}
         /\ \A p \in OccursAt(t, hi) : ~StandsAlone(t, hi, p)
         /\ \A n \in 1..Len(AllKeywords) : AllKeywords[n] = hi => ~matched[n]

\* C20: scoreOpportunity is a function of the lower-cased text alone: for
\* every message the results for any two language hints are the same, and
\* the result for the message is the result for its lower-cased form.
C20_HintAndCaseIgnored ==
  "rescore" \in scorerDone =>
    /\ \A l1, l2 \in LanguageHints :
         /\ rescored[l1]["given"] = rescored[l2]["given"]
         /\ rescored[l1]["given"] = rescored[l2]["lower"]
    /\ \A l \in LanguageHints : rescored[l]["given"] = scored

\* a message with capitals whose result comes from a keyword ("Hi")
C20_Witness ==
  /\ "rescore" \in scorerDone
  /\ contextText # toLowerCase(contextText)
  /\ rescored["jpn"]["given"] = OppResult(1, "chitchat")
  /\ rescored["eng"]["lower"] = OppResult(1, "chitchat")

(***************************************************************************)
(* featureFlags.ts                                                         *)
(***************************************************************************)
LetterSeq ==
  <<"a","b","c","d","e","f","g","h","i","j","k","l","m",
    "n","o","p","q","r","s","t","u","v","w","x","y","z">>

DigitSeq == <<"0","1","2","3","4","5","6","7","8","9">>

IndexIn(s, c) == CHOOSE i \in 1..Len(s) : s[i] = c

\* String.prototype.charCodeAt for the characters app ids are made of
charCodeAt(c) ==
  IF c \in Letters THEN 96 + IndexIn(LetterSeq, c)
  ELSE IF c \in Digits THEN 47 + IndexIn(DigitSeq, c)
  ELSE IF c = "-" THEN 45
  ELSE IF c = "_" THEN 95
  ELSE 32

\* A 32-bit unsigned integer is kept as its two 16-bit halves, so that no
\* intermediate value leaves the range of the checker's integers.
Half == 2 ^ 16

U32(hi, lo) == [hi |-> hi, lo |-> lo]

\* (hash * 31 + char) >>> 0
MulAdd31(hash, char) ==
  LET lo == hash.lo * 31 + char
      hi == hash.hi * 31 + (lo \div Half)
  IN  U32(hi % Half, lo % Half)

\* hash % 100 for hash = hi * 2^16 + lo
Mod100(hash) == ((hash.hi % 100) * (Half % 100) + (hash.lo % 100)) % 100

RECURSIVE HashLoop(_, _, _)
HashLoop(appId, i, hash) ==
  IF i > Len(appId) THEN hash
  ELSE HashLoop(appId, i + 1, MulAdd31(hash, charCodeAt(appId[i])))

\* the hash returned without the final % 100
hashAppIdNoMod(appId) == HashLoop(appId, 1, U32(0, 0)).lo

hashAppId(appId) == Mod100(HashLoop(appId, 1, U32(0, 0)))

\* an environment variable: unset, or set to a string
EnvUnset == [set |-> FALSE, val |-> <<>>]

EnvSet(s) == [set |-> TRUE, val |-> s]

\* truthiness of process.env.X: set and not the empty string
Truthy(v) == v.set /\ v.val # <<>>

\* String.prototype.trim
RECURSIVE TrimLeft(_)
TrimLeft(s) ==
  IF s # <<>> /\ IsSpace(Head(s)) THEN TrimLeft(Tail(s)) ELSE s

RECURSIVE TrimRight(_)
TrimRight(s) ==
  IF s # <<>> /\ IsSpace(s[Len(s)]) THEN TrimRight(SubSeq(s, 1, Len(s) - 1)) ELSE s

trim(s) == TrimRight(TrimLeft(s))

\* String.prototype.split(","): the pieces between the commas
RECURSIVE SplitComma(_, _)
SplitComma(s, cur) ==
  IF s = <<>> THEN <<cur>>
  ELSE IF Head(s) = "," THEN <<cur>> \o SplitComma(Tail(s), <<>>)
  ELSE SplitComma(Tail(s), Append(cur, Head(s)))

\* parseInt(str, 10): leading white space, an optional sign, then the longest
\* run of digits; NaN when there is none
NaN == [nan |-> TRUE, val |-> 0]

Num(n) == [nan |-> FALSE, val |-> n]

RECURSIVE DigitsValue(_, _, _)
DigitsValue(s, acc, seen) ==
  IF s # <<>> /\ Head(s) \in Digits
    THEN DigitsValue(Tail(s), acc * 10 + (IndexIn(DigitSeq, Head(s)) - 1), TRUE)
    ELSE IF seen THEN Num(acc) ELSE NaN

parseInt(str) ==
  LET s == TrimLeft(str)
  IN  IF s # <<>> /\ Head(s) = "-"
        THEN LET r == DigitsValue(Tail(s), 0, FALSE)
             IN  IF r.nan THEN NaN ELSE Num(0 - r.val)
      ELSE IF s # <<>> /\ Head(s) = "+"
        THEN DigitsValue(Tail(s), 0, FALSE)
      ELSE DigitsValue(s, 0, FALSE)

StrTrue == <<"t","r","u","e">>

StrFalse == <<"f","a","l","s","e">>

\* whitelist.includes(appId) for the whitelist of V2_APP_IDS
InWhitelist(e, appId) ==
  /\ Truthy(e.V2_APP_IDS)
  /\ LET whitelist == SplitComma(e.V2_APP_IDS.val, <<>>)
     IN  \E i \in 1..Len(whitelist) : trim(whitelist[i]) = appId

\* the same function with the whitelist consulted before the global switch
isV2EnabledWhitelistFirst(e, appId) ==
  IF InWhitelist(e, appId) THEN TRUE
  ELSE IF e.V2_ENABLED = EnvSet(StrFalse) THEN FALSE
  ELSE LET percentage == parseInt(e.V2_PERCENTAGE.val)
       IN  IF /\ Truthy(e.V2_PERCENTAGE)
              /\ ~percentage.nan /\ percentage.val >= 0 /\ percentage.val <= 100
             THEN hashAppId(appId) < percentage.val
             ELSE e.V2_ENABLED = EnvSet(StrTrue)

isV2Enabled(e, appId) ==
  IF e.V2_ENABLED = EnvSet(StrFalse) THEN FALSE
  ELSE IF InWhitelist(e, appId) THEN TRUE
  ELSE LET percentage == parseInt(e.V2_PERCENTAGE.val)
       IN  IF /\ Truthy(e.V2_PERCENTAGE)
              /\ ~percentage.nan /\ percentage.val >= 0 /\ percentage.val <= 100
             THEN hashAppId(appId) < percentage.val
             ELSE e.V2_ENABLED = EnvSet(StrTrue)

\* the environments and callers the flags are evaluated for
AppIds ==
  { <<"a">>, <<"z","z">>, <<"a","p","p","1">>, <<"d","e","m","o">>,
    <<"z","z","z","z","z","z","z","z">> }

EnabledValues ==
  { EnvUnset, EnvSet(StrTrue), EnvSet(StrFalse), EnvSet(<<"1">>), EnvSet(<<>>) }

AppIdsValues ==
  { EnvUnset, EnvSet(<<>>),
    EnvSet(<<"a","p","p","1">>),
    EnvSet(<<" ","z","z"," ",",","a","p","p","1">>),
    EnvSet(<<"d","e","m","o",",","a">>) }

PercentageValues ==
  { EnvUnset, EnvSet(<<>>), EnvSet(<<"0">>), EnvSet(<<"5">>), EnvSet(<<"5","1">>),
    EnvSet(<<"9","0">>), EnvSet(<<"1","0","0">>), EnvSet(<<"1","0","1">>),
    EnvSet(<<"-","1">>), EnvSet(<<"a","l","l">>), EnvSet(<<" ","8","1","%">>) }

Environments ==
  [V2_ENABLED : EnabledValues, V2_APP_IDS : AppIdsValues,
   V2_PERCENTAGE : PercentageValues, V2_TIMEOUT_MS : {EnvUnset}]

EnvDefault ==
  [V2_ENABLED |-> EnvUnset, V2_APP_IDS |-> EnvUnset, V2_PERCENTAGE |-> EnvUnset,
   V2_TIMEOUT_MS |-> EnvUnset]

\* a call isV2Enabled(appId)
CallIsV2Enabled ==
  /\ ~flagsCalled
  /\ flagsCalled' = TRUE
  /\ v2Enabled' = isV2Enabled(env, callerId)
  /\ UNCHANGED <<env, callerId, rollout>>

MaxRollout == 2

\* the percentages a rollout is taken through
RolloutValues ==
  { EnvSet(<<"0">>), EnvSet(<<"5">>), EnvSet(<<"5","1">>), EnvSet(<<"9","0">>),
    EnvSet(<<"1","0","0">>) }

\* the value of a percentage the rollout branch of isV2Enabled accepts, -1 otherwise
PercentageOf(v) ==
  LET percentage == parseInt(v.val)
  IN  IF Truthy(v) /\ ~percentage.nan /\ percentage.val >= 0 /\ percentage.val <= 100
        THEN percentage.val ELSE -1

\* V2_PERCENTAGE is raised (or set for the first time) and isV2Enabled(appId)
\* is called again; hash is the local of its rollout branch, -1 when the branch
\* is not reached
RolloutCall ==
  /\ Len(rollout) < MaxRollout
  /\ \E q \in RolloutValues :
       LET e == [env EXCEPT !.V2_PERCENTAGE = q]
           reached == e.V2_ENABLED # EnvSet(StrFalse) /\ ~InWhitelist(e, callerId)
       IN  /\ PercentageOf(q) >= PercentageOf(env.V2_PERCENTAGE)
           /\ env' = e
           /\ flagsCalled' = TRUE
           /\ v2Enabled' = isV2Enabled(e, callerId)
           /\ rollout' = Append(rollout,
                 [percentage |-> PercentageOf(q),
                  hash |-> IF reached THEN hashAppId(callerId) ELSE -1,
                  enabled |-> isV2Enabled(e, callerId)])
  /\ UNCHANGED callerId

(***************************************************************************)
(* Claims about the feature flags                                          *)
(***************************************************************************)
ValidPercentage(e) ==
  /\ Truthy(e.V2_PERCENTAGE)
  /\ ~parseInt(e.V2_PERCENTAGE.val).nan
  /\ parseInt(e.V2_PERCENTAGE.val).val \in 0..100

Listed(e, id) ==
  /\ e.V2_APP_IDS.set
  /\ \E i \in 1..Len(SplitComma(e.V2_APP_IDS.val, <<>>)) :
       trim(SplitComma(e.V2_APP_IDS.val, <<>>)[i]) = id

\* C6: isV2Enabled is decided in strict priority order: the global switch
\* set to 'false' gives false for every caller; otherwise an allow-listed
\* caller gets true; otherwise a valid percentage gives bucket < percentage;
\* otherwise the result is whether the global switch is 'true'.
C6_FlagPriority ==
  flagsCalled =>
    v2Enabled =
      CASE env.V2_ENABLED = EnvSet(StrFalse) -> FALSE
        [] env.V2_ENABLED # EnvSet(StrFalse) /\ Listed(env, callerId) -> TRUE
        [] /\ env.V2_ENABLED # EnvSet(StrFalse)
           /\ ~Listed(env, callerId)
           /\ ValidPercentage(env) ->
             hashAppId(callerId) < parseInt(env.V2_PERCENTAGE.val).val
        [] OTHER -> env.V2_ENABLED = EnvSet(StrTrue)

\* the kill switch is 'false', the caller is allow-listed, the rollout is 100%,
\* and the call answered false
C6_Witness ==
  /\ flagsCalled
  /\ env.V2_ENABLED = EnvSet(StrFalse)
  /\ Listed(env, callerId)
  /\ env.V2_PERCENTAGE = EnvSet(<<"1","0","0">>)
  /\ v2Enabled = FALSE

\* caller ids long enough for the hash to pass 2^32 (from seven characters on)
HashedIds == UNION { [1..n -> {"a", "z"}] : n \in 1..8 }

\* the bucket of every one of these callers is in 0..99
BucketsInRange == \A appId \in HashedIds \cup AppIds : hashAppId(appId) \in 0..99

\* C23: the bucket hashAppId gives a caller is an integer in 0..99 and the
\* same at every call.  With the switch not 'false' and the caller not
\* allow-listed, a call under a valid percentage p answers bucket < p: none
\* is enabled at 0, every caller at 100, and a caller enabled at p is enabled
\* at every later, higher percentage.
C23_StableBucket ==
  /\ BucketsInRange
  /\ \A i \in 1..Len(rollout) :
       LET r == rollout[i]
       IN  /\ r.percentage \in 0..100
           /\ r.hash # -1 =>
                /\ r.hash \in 0..99
                /\ \A j \in 1..Len(rollout) : rollout[j].hash \in {-1, r.hash}
           /\ (env.V2_ENABLED # EnvSet(StrFalse) /\ ~Listed(env, callerId)) =>
                /\ r.hash # -1
                /\ r.enabled <=> r.hash < r.percentage
                /\ r.percentage = 0 => ~r.enabled
                /\ r.percentage = 100 => r.enabled
                /\ \A j \in i..Len(rollout) :
                     /\ rollout[j].percentage >= r.percentage
                     /\ r.enabled => rollout[j].enabled

\* the caller of bucket 51 was not enabled at 51% and is enabled at 90%
C23_Witness ==
  /\ Len(rollout) = 2
  /\ env.V2_ENABLED = EnvUnset
  /\ ~Listed(env, callerId)
  /\ rollout[1].hash = 51
  /\ rollout[1].percentage = 51 /\ ~rollout[1].enabled
  /\ rollout[2].percentage = 90 /\ rollout[2].enabled

(***************************************************************************)
(* Ads.  An optional field of a document is Some(v) or missing.  Money and *)
(* rates are integers: cpc in tenths, baseCTR and pCTR in thousandths,     *)
(* penalties in tenths, so expectedValue is in units of 10^-5.             *)
(***************************************************************************)
Some(v) == [has |-> TRUE, val |-> v]

MissingNum == [has |-> FALSE, val |-> 0]

MissingStr == [has |-> FALSE, val |-> ""]

\* x ?? d
OrElse(x, d) == IF x.has THEN x.val ELSE d

\* DEFAULT_BASE_CTR = 0.02, in thousandths
DEFAULT_BASE_CTR == 20

\* the fallback of `cpc ?? 1.0`, in tenths
DEFAULT_CPC == 10

\* FATIGUE_SAME_AD_PENALTY = 0.5, in tenths
FATIGUE_SAME_AD_PENALTY == 5

\* FATIGUE_SAME_ADVERTISER_PENALTY = 0.3, in tenths
FATIGUE_SAME_ADVERTISER_PENALTY == 3

\* EPSILON = 0.05, in hundredths
EPSILON == 5

Max(a, b) == IF a >= b THEN a ELSE b

Min(a, b) == IF a <= b THEN a ELSE b

(***************************************************************************)
(* ranker.ts                                                               *)
(***************************************************************************)
\* the two penalties added up instead of the larger one taken
FatiguePenaltySummed(ad, recentAdIds, recentAdvertiserIds) ==
  LET adId == OrElse(ad.id, "")
      sameAdPenalty == IF adId \in recentAdIds THEN FATIGUE_SAME_AD_PENALTY ELSE 0
      sameAdvertiserPenalty ==
        IF ad.advertiserId \in recentAdvertiserIds
          THEN FATIGUE_SAME_ADVERTISER_PENALTY ELSE 0
  IN  sameAdPenalty + sameAdvertiserPenalty

\* recentAdIds, recentAdvertiserIds: the Sets built from the two arrays
FatiguePenalty(ad, recentAdIds, recentAdvertiserIds) ==
  LET adId == OrElse(ad.id, "")
      sameAdPenalty == IF adId \in recentAdIds THEN FATIGUE_SAME_AD_PENALTY ELSE 0
      sameAdvertiserPenalty ==
        IF ad.advertiserId \in recentAdvertiserIds
          THEN FATIGUE_SAME_ADVERTISER_PENALTY ELSE 0
  IN  Max(sameAdPenalty, sameAdvertiserPenalty)

\* the expected value computed without the fatigue penalty
RankOneUnpenalised(candidate, recentAdIds, recentAdvertiserIds) ==
  LET ad == candidate.ad
      cpc == OrElse(ad.cpc, DEFAULT_CPC)
      pCTR == OrElse(ad.baseCTR, DEFAULT_BASE_CTR)
      fatiguePenalty == FatiguePenalty(ad, recentAdIds, recentAdvertiserIds)
  IN  [ad |-> ad,
       expectedValue |-> pCTR * cpc * 10,
       pCTR |-> pCTR,
       fatiguePenalty |-> fatiguePenalty,
       formatPenalty |-> 0]

\* the body of candidates.map(...)
RankOne(candidate, recentAdIds, recentAdvertiserIds) ==
  LET ad == candidate.ad
      cpc == OrElse(ad.cpc, DEFAULT_CPC)
      pCTR == OrElse(ad.baseCTR, DEFAULT_BASE_CTR)
      fatiguePenalty == FatiguePenalty(ad, recentAdIds, recentAdvertiserIds)
  IN  [ad |-> ad,
       expectedValue |-> pCTR * cpc * (10 - fatiguePenalty),
       pCTR |-> pCTR,
       fatiguePenalty |-> fatiguePenalty,
       formatPenalty |-> 0]

\* a sort that puts x in front of the elements it ties with
RECURSIVE InsertByExpectedValueUnstable(_, _)
InsertByExpectedValueUnstable(sorted, x) ==
  IF sorted = <<>> THEN <<x>>
  ELSE IF Head(sorted).expectedValue > x.expectedValue
    THEN <<Head(sorted)>> \o InsertByExpectedValueUnstable(Tail(sorted), x)
    ELSE <<x>> \o sorted

\* Array.prototype.sort((a, b) => b.expectedValue - a.expectedValue): stable,
\* descending.  x goes behind every element that does not sort after it.
RECURSIVE InsertByExpectedValue(_, _)
InsertByExpectedValue(sorted, x) ==
  IF sorted = <<>> THEN <<x>>
  ELSE IF Head(sorted).expectedValue >= x.expectedValue
    THEN <<Head(sorted)>> \o InsertByExpectedValue(Tail(sorted), x)
    ELSE <<x>> \o sorted

RECURSIVE SortByExpectedValue(_)
SortByExpectedValue(s) ==
  IF s = <<>> THEN <<>>
  ELSE InsertByExpectedValue(SortByExpectedValue(SubSeq(s, 1, Len(s) - 1)), s[Len(s)])

\* a ranker that drops the candidates it penalises
rankCandidatesDropFatigued(candidates, recentAdIds, recentAdvertiserIds) ==
  LET Unpenalised(r) == r.fatiguePenalty = 0
  IN  SelectSeq(SortByExpectedValue([i \in 1..Len(candidates) |->
                  RankOne(candidates[i], SeqRange(recentAdIds),
                          SeqRange(recentAdvertiserIds))]),
                Unpenalised)

rankCandidates(candidates, recentAdIds, recentAdvertiserIds) ==
  SortByExpectedValue(
    [i \in 1..Len(candidates) |->
       RankOne(candidates[i], SeqRange(recentAdIds), SeqRange(recentAdvertiserIds))])

\* the ads, and the recent ids, the ranker is run on
MaxCandidates == 3

RankerAd(id, advertiserId, cpc, baseCTR) ==
  [id |-> id, advertiserId |-> advertiserId, cpc |-> cpc, baseCTR |-> baseCTR]

RankerAds ==
  { RankerAd(Some("ad-1"), "adv-1", Some(10), Some(100)),
    RankerAd(Some("ad-2"), "adv-1", MissingNum, MissingNum),
    RankerAd(Some("ad-3"), "adv-2", Some(20), Some(20)),
    RankerAd(MissingStr, "adv-2", Some(5), MissingNum) }

RankerCandidates ==
  UNION {[1..n -> {[ad |-> a, score |-> 1, matchSource |-> "tag"] : a \in RankerAds}]
           : n \in 0..MaxCandidates}

RecentAdIdLists == { <<>>, <<"ad-1">>, <<"ad-3", "ad-1">>, <<"ad-2", "ad-2">>, <<"ad-9">> }

RecentAdvertiserIdLists == { <<>>, <<"adv-1">>, <<"adv-2", "adv-1">>, <<"adv-9">> }

NotRanked == <<[ad |-> RankerAd(MissingStr, "", MissingNum, MissingNum),
                expectedValue |-> -1, pCTR |-> -1, fatiguePenalty |-> -1,
                formatPenalty |-> -1]>>

\* a call rankCandidates(candidates, recentAdIds, recentAdvertiserIds)
Rank ==
  /\ rankerOut = NotRanked
  /\ rankerOut' = rankCandidates(rankerIn.candidates, rankerIn.recentAdIds,
                                 rankerIn.recentAdvertiserIds)
  /\ UNCHANGED rankerIn

(***************************************************************************)
(* Claims about the ranker                                                 *)
(***************************************************************************)
HasId(ad, ids) == ad.id.has /\ \E i \in 1..Len(ids) : ids[i] = ad.id.val

HasAdvertiser(ad, ids) == \E i \in 1..Len(ids) : ids[i] = ad.advertiserId

\* C10: every ranked candidate carries fatigue penalty 0.5 if its id is in
\* recentItemIds, else 0.3 if its advertiser id is in recentAdvertiserIds,
\* else 0; the penalty is one of {0, 0.3, 0.5}, never the sum, and 0.5 when
\* both apply.
C10_FatiguePenalty ==
  rankerOut # NotRanked =>
    \A i \in 1..Len(rankerOut) :
      LET r == rankerOut[i]
      IN  /\ r.fatiguePenalty \in {0, 3, 5}
          /\ r.fatiguePenalty =
               IF HasId(r.ad, rankerIn.recentAdIds) THEN 5
               ELSE IF HasAdvertiser(r.ad, rankerIn.recentAdvertiserIds) THEN 3
               ELSE 0

\* a ranked candidate whose id and whose advertiser are both recent, with 0.5
C10_Witness ==
  /\ rankerOut # NotRanked
  /\ \E i \in 1..Len(rankerOut) :
       /\ HasId(rankerOut[i].ad, rankerIn.recentAdIds)
       /\ HasAdvertiser(rankerOut[i].ad, rankerIn.recentAdvertiserIds)
       /\ rankerOut[i].fatiguePenalty = 5

\* C11: every ranked candidate reports pCTR = the base CTR of its ad, or 0.02
\* when the ad has none, and expectedValue = pCTR x cpc x (1 - fatiguePenalty)
\* with cpc the CPC of its ad, or 1.0 when the ad has none; formatPenalty is 0.
\* (pCTR in thousandths, cpc and the penalty in tenths: the expected value is
\* in units of 0.00001.)
C11_ExpectedValue ==
  rankerOut # NotRanked =>
    \A i \in 1..Len(rankerOut) :
      LET r == rankerOut[i]
          cpc == IF r.ad.cpc.has THEN r.ad.cpc.val ELSE 10
      IN  /\ r.pCTR = IF r.ad.baseCTR.has THEN r.ad.baseCTR.val ELSE 20
          /\ r.expectedValue = r.pCTR * cpc * (10 - r.fatiguePenalty)
          /\ r.formatPenalty = 0

\* an ad without CPC and base CTR, penalised 0.3: 0.02 x 1.0 x 0.7 = 0.014
C11_Witness ==
  /\ rankerOut # NotRanked
  /\ \E i \in 1..Len(rankerOut) :
       /\ ~rankerOut[i].ad.cpc.has
       /\ ~rankerOut[i].ad.baseCTR.has
       /\ rankerOut[i].fatiguePenalty = 3
       /\ rankerOut[i].pCTR = 20
       /\ rankerOut[i].expectedValue = 1400

\* the one-to-one maps of the positions 1..n
PositionMaps(n) == { f \in [1..n -> 1..n] : \A i, j \in 1..n : f[i] = f[j] => i = j }

\* C12: the output of rankCandidates is a permutation of its input (the same
\* length, each input candidate exactly once, empty for the empty input)
\* in descending order of expected value, and candidates of equal expected
\* value are in their input order.
C12_StablePermutation ==
  rankerOut # NotRanked =>
    /\ Len(rankerOut) = Len(rankerIn.candidates)
    /\ \A i \in 1..(Len(rankerOut) - 1) :
         rankerOut[i].expectedValue >= rankerOut[i + 1].expectedValue
    /\ \E f \in PositionMaps(Len(rankerOut)) :
         /\ \A i \in 1..Len(rankerOut) : rankerOut[i].ad = rankerIn.candidates[f[i]].ad
         /\ \A i, j \in 1..Len(rankerOut) :
              (i < j /\ rankerOut[i].expectedValue = rankerOut[j].expectedValue)
                => f[i] < f[j]

\* two different ads of equal expected value (0.02 x 1.0 x 1 and
\* 0.02 x 2.0 x 0.5), the one that sorts later by id first in the input and
\* first in the output
C12_Witness ==
  /\ rankerOut # NotRanked
  /\ Len(rankerIn.candidates) = 3
  /\ rankerIn.candidates[1].ad.id = Some("ad-3")
  /\ rankerIn.candidates[2].ad.id = Some("ad-2")
  /\ \E i \in 1..2 :
       /\ rankerOut[i].ad.id = Some("ad-3")
       /\ rankerOut[i + 1].ad.id = Some("ad-2")
       /\ rankerOut[i].expectedValue = rankerOut[i + 1].expectedValue

(***************************************************************************)
(* explorer.ts                                                             *)
(* epsilon is in hundredths.  Math.random() returns k / RandRes for some   *)
(* k in 0..RandRes-1; `random` is the sequence of the k's the calls of one *)
(* run return, in order.                                                   *)
(***************************************************************************)
RandRes == 10

NullCandidate == [has |-> FALSE, val |-> [ad |-> 0]]

\* Math.random() <= epsilon
RandomBelowOrEqual(k, epsilon) == k * 100 <= epsilon * RandRes

\* Math.random() < epsilon
RandomBelow(k, epsilon) == k * 100 < epsilon * RandRes

\* Math.floor(Math.random() * n)
RandomIndex(k, n) == (k * n) \div RandRes

\* rankedCandidates.slice(0, 5)
Top5(rankedCandidates) == SubSeq(rankedCandidates, 1, Min(5, Len(rankedCandidates)))

\* the random index taken over the whole list instead of the top-5 slice
selectWithExplorationNoSlice(rankedCandidates, epsilon, random) ==
  IF Len(rankedCandidates) = 0
    THEN [selected |-> NullCandidate, draws |-> 0]
  ELSE IF RandomBelow(random[1], epsilon)
    THEN [selected |->
            Some(rankedCandidates[RandomIndex(random[2], Len(rankedCandidates)) + 1]),
          draws |-> 2]
  ELSE [selected |-> Some(rankedCandidates[1]), draws |-> 1]

\* returns the selected candidate and how many Math.random() calls were made
selectWithExploration(rankedCandidates, epsilon, random) ==
  IF Len(rankedCandidates) = 0
    THEN [selected |-> NullCandidate, draws |-> 0]
  ELSE IF RandomBelow(random[1], epsilon)
    THEN LET top5 == Top5(rankedCandidates)
             randomIndex == RandomIndex(random[2], Len(top5))
         IN  [selected |-> Some(top5[randomIndex + 1]), draws |-> 2]
  ELSE [selected |-> Some(rankedCandidates[1]), draws |-> 1]

\* the lists, epsilons and random draws the explorer is run on
MaxRanked == 7

Epsilons == {-5, 0, EPSILON, 50, 100, 250}

RandomTapes == [1..2 -> 0..(RandRes - 1)]

RankedList(n) == [i \in 1..n |-> [ad |-> i]]

NotSelected == [selected |-> NullCandidate, draws |-> -1]

\* a call selectWithExploration(ranked, epsilon)
Select ==
  /\ explorerOut = NotSelected
  /\ explorerOut' = selectWithExploration(explorerIn.ranked, explorerIn.epsilon,
                                          explorerIn.random)
  /\ UNCHANGED explorerIn

(***************************************************************************)
(* Claims about the explorer                                               *)
(***************************************************************************)
\* C9: selectWithExploration returns null exactly when the ranked list is
\* empty; otherwise the result is one of the first min(5, n) elements,
\* whatever the draws and epsilon; with epsilon = 0 it is the first element;
\* with epsilon = 1 every one of the first min(5, n) elements is a possible
\* result.
C9_TopFiveOnly ==
  explorerOut # NotSelected =>
    LET ranked == explorerIn.ranked
        n == Len(ranked)
        out == explorerOut.selected
    IN  /\ ~out.has <=> n = 0
        /\ n > 0 => \E i \in 1..Min(5, n) : out.val = ranked[i]
        /\ (n > 0 /\ explorerIn.epsilon = 0) => out.val = ranked[1]
        /\ (n > 0 /\ explorerIn.epsilon = 100) =>
             \A i \in 1..Min(5, n) :
               \E random \in RandomTapes :
                 selectWithExploration(ranked, 100, random).selected.val = ranked[i]

\* a list of more than five, explored, and the fifth element returned
C9_Witness ==
  /\ explorerOut # NotSelected
  /\ Len(explorerIn.ranked) > 5
  /\ explorerOut.draws = 2
  /\ explorerOut.selected.val = explorerIn.ranked[5]

\* C24: for a non-empty list selectWithExploration explores exactly when its
\* first draw r is strictly below epsilon.  Then it makes a second draw r2
\* and returns the element at index floor(r2 * min(5, n)); otherwise
\* (r = epsilon included) it returns the first element and draws no more.
\* The draws are r = random[1] / RandRes and r2 = random[2] / RandRes, and
\* epsilon is in hundredths.
C24_ExploreBelowEpsilon ==
  (explorerOut # NotSelected /\ explorerIn.ranked # <<>>) =>
    LET ranked == explorerIn.ranked
        m == IF Len(ranked) < 5 THEN Len(ranked) ELSE 5
        r == explorerIn.random[1]
        r2 == explorerIn.random[2]
        IsFloor(i) == i * RandRes <= r2 * m /\ r2 * m < (i + 1) * RandRes
    IN  IF r * 100 < explorerIn.epsilon * RandRes
          THEN /\ explorerOut.draws = 2
               /\ \E i \in 0..(m - 1) :
                    IsFloor(i) /\ explorerOut.selected = Some(ranked[i + 1])
          ELSE /\ explorerOut.draws = 1
               /\ explorerOut.selected = Some(ranked[1])

\* the first draw equals epsilon = 0.5: the first element is returned after
\* one draw, though the second draw would have pointed further down the list
C24_Witness ==
  /\ explorerOut # NotSelected
  /\ explorerIn.epsilon = 50
  /\ explorerIn.random[1] * 100 = 50 * RandRes
  /\ explorerIn.random[2] = RandRes - 1
  /\ Len(explorerIn.ranked) >= 2
  /\ explorerOut.draws = 1
  /\ explorerOut.selected = Some(explorerIn.ranked[1])

(***************************************************************************)
(* The ads and advertisers collections of the document store.  An ad       *)
(* document is its id and its data; the data holds no id field.  Text is   *)
(* the English text of a localized field.                                  *)
(***************************************************************************)
AdData(advertiserId, format, tags, title, description, cpc, baseCTR) ==
  [id |-> MissingStr, advertiserId |-> advertiserId, format |-> format,
   tags |-> tags, title |-> title, description |-> description,
   cpc |-> cpc, baseCTR |-> baseCTR]

AdDoc(docId, data) == [id |-> docId, data |-> data]

WordLaptop == <<"l","a","p","t","o","p">>

WordSale == <<"s","a","l","e">>

WordEnglish == <<"e","n","g","l","i","s","h">>

WordHotel == <<"h","o","t","e","l">>

\* db.collection("ads").where("status", "==", "active")
ActiveAdDocs ==
  << AdDoc("ad-1", AdData("adv-1", "action_card", <<WordLaptop, WordSale>>,
                          <<"P","C">>, <<"d","e","a","l","s">>,
                          Some(10), Some(50))),
     AdDoc("ad-2", AdData("adv-1", "lead_gen", <<WordEnglish, <<"L","a","p","t","o","p">> >>,
                          <<"l","e","a","r","n">>, WordEnglish,
                          MissingNum, MissingNum)),
     AdDoc("ad-3", AdData("adv-2", "static", <<WordHotel>>,
                          <<"L","a","p","t","o","p","s">>, <<"b","a","g","s">>,
                          Some(20), Some(20))) >>

\* db.collection("advertisers"): the documents that exist, by id
AdvertiserNames == [a \in {"adv-1"} |-> "Acme"]

(***************************************************************************)
(* String.prototype.split(/\s+/) and split(/\W+/): the pieces between the  *)
(* maximal runs of separators, empty first and last pieces included.       *)
(***************************************************************************)
IsSeparator(c, nonWord) == IF nonWord THEN ~IsWordChar(c) ELSE IsSpace(c)

RECURSIVE SplitFrom(_, _, _, _, _)
SplitFrom(s, i, cur, inRun, nonWord) ==
  IF i > Len(s) THEN <<cur>>
  ELSE IF IsSeparator(s[i], nonWord)
    THEN IF inRun THEN SplitFrom(s, i + 1, <<>>, TRUE, nonWord)
         ELSE <<cur>> \o SplitFrom(s, i + 1, <<>>, TRUE, nonWord)
  ELSE SplitFrom(s, i + 1, Append(cur, s[i]), FALSE, nonWord)

SplitSpaces(s) == SplitFrom(s, 1, <<>>, FALSE, FALSE)

SplitNonWord(s) == SplitFrom(s, 1, <<>>, FALSE, TRUE)

(***************************************************************************)
(* candidateGenerator.ts.  Scores are in halves (TEXT_MATCH_MULTIPLIER is  *)
(* 0.5): a tag match counts 2, a text match counts 1.                      *)
(***************************************************************************)
\* tokens of one and two characters kept
tokenizeKeepShort(text) ==
  LET NotEmpty(word) == Len(word) > 0
  IN  SelectSeq(SplitSpaces(toLowerCase(text)), NotEmpty)

tokenize(text) ==
  LET LongEnough(word) == Len(word) > 2
  IN  SelectSeq(SplitSpaces(toLowerCase(text)), LongEnough)

\* a keyword counts when it is part of a tag or a tag is part of it
scoreTagMatchSubstring(ad, keywords) ==
  LET tags == [i \in 1..Len(ad.tags) |-> toLowerCase(ad.tags[i])]
      IsTag(keyword) ==
        \E i \in 1..Len(tags) : includes(tags[i], keyword) \/ includes(keyword, tags[i])
  IN  2 * Len(SelectSeq(keywords, IsTag))

scoreTagMatch(ad, keywords) ==
  LET tags == [i \in 1..Len(ad.tags) |-> toLowerCase(ad.tags[i])]
      IsTag(keyword) == keyword \in SeqRange(tags)
  IN  2 * Len(SelectSeq(keywords, IsTag))

scoreTextMatch(ad, keywords) ==
  LET searchText == toLowerCase(ad.title) \o <<" ">> \o toLowerCase(ad.description)
      InText(keyword) == includes(searchText, keyword)
  IN  Len(SelectSeq(keywords, InText))

\* candidates.sort((a, b) => b.score - a.score): stable, descending
RECURSIVE InsertByScore(_, _)
InsertByScore(sorted, x) ==
  IF sorted = <<>> THEN <<x>>
  ELSE IF Head(sorted).score >= x.score
    THEN <<Head(sorted)>> \o InsertByScore(Tail(sorted), x)
    ELSE <<x>> \o sorted

RECURSIVE SortByScore(_)
SortByScore(s) ==
  IF s = <<>> THEN <<>>
  ELSE InsertByScore(SortByScore(SubSeq(s, 1, Len(s) - 1)), s[Len(s)])

\* the larger of the two scores decides the source
RECURSIVE ScoreAdsBestScore(_, _)
ScoreAdsBestScore(ads, keywords) ==
  IF ads = <<>> THEN <<>>
  ELSE LET ad == Head(ads)
           tagScore == scoreTagMatch(ad, keywords)
           textScore == scoreTextMatch(ad, keywords)
           rest == ScoreAdsBestScore(Tail(ads), keywords)
       IN  IF tagScore > 0 /\ tagScore >= textScore
             THEN <<[ad |-> ad, score |-> tagScore, matchSource |-> "tag"]>> \o rest
           ELSE IF textScore > 0
             THEN <<[ad |-> ad, score |-> textScore, matchSource |-> "text"]>> \o rest
           ELSE rest

\* the for loop over the ads: at most one candidate per ad
RECURSIVE ScoreAds(_, _)
ScoreAds(ads, keywords) ==
  IF ads = <<>> THEN <<>>
  ELSE LET ad == Head(ads)
           tagScore == scoreTagMatch(ad, keywords)
           textScore == scoreTextMatch(ad, keywords)
           rest == ScoreAds(Tail(ads), keywords)
       IN  IF tagScore > 0
             THEN <<[ad |-> ad, score |-> tagScore, matchSource |-> "tag"]>> \o rest
           ELSE IF textScore > 0
             THEN <<[ad |-> ad, score |-> textScore, matchSource |-> "text"]>> \o rest
           ELSE rest

\* `formats` is <<>> when the argument is omitted
FilterFormats(ads, formats) ==
  LET Accepted(ad) == ad.format \in SeqRange(formats)
  IN  IF Len(formats) > 0 THEN SelectSeq(ads, Accepted) ELSE ads

\* generateCandidates after its two awaits: keywords are the tokens of the
\* English text, ads is what getActiveAds returned
CandidatesFrom(keywords, ads, formats) ==
  LET filtered == FilterFormats(ads, formats)
  IN  IF Len(filtered) = 0 THEN <<>>
      ELSE SortByScore(ScoreAds(filtered, keywords))

(***************************************************************************)
(* keywordBased.ts (the legacy decider, v1)                                *)
(***************************************************************************)
SUPPORTED_LANGUAGES == {"eng", "jpn"}

normalize(s) == trim(toLowerCase(s))

tagMatchesContext(context, tag) == tag \in SeqRange(SplitNonWord(context))

\* adsSnap.docs.map(...): the data with id: doc.id
WithDocId(doc) == [doc.data EXCEPT !.id = Some(doc.id)]

\* steps 2 to 4: the matched ads, those of maximal score, and the one at
\* index floor(Math.random() * topCandidates.length); k is the draw
MatchCount(ad, normalizedContext) ==
  LET Matches(tag) == tagMatchesContext(normalizedContext, normalize(tag))
  IN  Len(SelectSeq(ad.tags, Matches))

TopCandidates(docs, normalizedContext) ==
  LET ads == [i \in 1..Len(docs) |-> WithDocId(docs[i])]
      Matched(ad) == MatchCount(ad, normalizedContext) > 0
      scoredAds == SelectSeq(ads, Matched)
      IsTop(ad) ==
        \A j \in 1..Len(scoredAds) :
          MatchCount(scoredAds[j], normalizedContext) <= MatchCount(ad, normalizedContext)
  IN  SelectSeq(scoredAds, IsTop)

(***************************************************************************)
(* v2/index.ts: decideAdV2.                                                *)
(* A run is suspended only where it awaits a collaborator's input/output:  *)
(* the translation call, the catalog fetch of a cache miss, the advertiser *)
(* fetch of a cache miss.  Between two such points it runs to the next one *)
(* without interruption; V2FromEnglish, V2FromAds and V2FromAdvertiser are *)
(* those stretches.  st.t is the time (ms) the run has reached, st.calls   *)
(* the collaborators it has invoked so far.                                *)
(***************************************************************************)
NoAd == [has |-> FALSE,
         val |-> [id |-> "", advertiserId |-> "", advertiserName |-> "", format |-> ""]]

ResolvedAd(id, advertiserId, advertiserName, format) ==
  Some([id |-> id, advertiserId |-> advertiserId,
        advertiserName |-> advertiserName, format |-> format])

PhaseTimings(opportunityMs, candidateMs, rankingMs, totalMs) ==
  [opportunityMs |-> opportunityMs, candidateMs |-> candidateMs,
   rankingMs |-> rankingMs, totalMs |-> totalMs]

NoMeta ==
  [oppScore |-> -1, oppIntent |-> None, candidateCount |-> -1, finalScore |-> -1,
   baseScore |-> -1, fatiguePenalty |-> -1, formatPenalty |-> -1,
   fallbackUsed |-> FALSE, phaseTimings |-> PhaseTimings(-1, -1, -1, -1)]

createEmptyMeta(oppScore, oppIntent, phaseTimings) ==
  [oppScore |-> oppScore, oppIntent |-> oppIntent, candidateCount |-> 0,
   finalScore |-> 0, baseScore |-> 0, fatiguePenalty |-> 0, formatPenalty |-> 0,
   fallbackUsed |-> FALSE, phaseTimings |-> phaseTimings]

NoRanking ==
  [ad |-> AdData("", "", <<>>, <<>>, <<>>, MissingNum, MissingNum),
   expectedValue |-> -1, pCTR |-> -1, fatiguePenalty |-> -1, formatPenalty |-> -1]

V2Idle ==
  [pc |-> "idle", t |-> 0, calls |-> {}, language |-> "",
   recentAdIds |-> <<>>, recentAdvertiserIds |-> <<>>,
   startTime |-> 0, opportunityMs |-> 0, oppScore |-> -1, oppIntent |-> None,
   candStart |-> 0, candidateMs |-> 0, rankingMs |-> 0,
   keywords |-> <<>>, now |-> 0, candidateCount |-> 0, selected |-> NoRanking,
   ad |-> NoAd, meta |-> NoMeta, translation |-> "none"]

\* return { ad, meta }: the promise resolves
V2Return(st, ad, meta) ==
  [st EXCEPT !.pc = "resolved", !.ad = ad, !.meta = meta]

\* the exits with no ad report no total
V2ExitEmptyNoTotal(st, candidateMs, rankingMs) ==
  V2Return(st, NoAd,
           createEmptyMeta(st.oppScore, st.oppIntent,
                           PhaseTimings(st.opportunityMs, candidateMs, rankingMs, 0)))

\* an exit with no ad; totalMs is read when the exit is taken
V2ExitEmpty(st, candidateMs, rankingMs) ==
  V2Return(st, NoAd,
           createEmptyMeta(st.oppScore, st.oppIntent,
                           PhaseTimings(st.opportunityMs, candidateMs, rankingMs,
                                        st.t - st.startTime)))

\* an entry still served at the instant it expires
FreshAtExpiry(entry, now) == entry.has /\ entry.expiresAt >= now

\* cache && cache.expiresAt > now
Fresh(entry, now) == entry.has /\ entry.expiresAt > now

\* toResolvedAd after getAdvertiser, and the rest of decideAdV2
V2FromAdvertiser(st, advertiserName) ==
  LET selected == st.selected
      ad == selected.ad
  IN  V2Return(st,
        ResolvedAd(OrElse(ad.id, ""), ad.advertiserId, advertiserName, ad.format),
        [oppScore |-> st.oppScore, oppIntent |-> st.oppIntent,
         candidateCount |-> st.candidateCount,
         finalScore |-> selected.expectedValue,
         baseScore |-> selected.pCTR,
         fatiguePenalty |-> selected.fatiguePenalty,
         formatPenalty |-> selected.formatPenalty,
         fallbackUsed |-> FALSE,
         phaseTimings |-> PhaseTimings(st.opportunityMs, st.candidateMs,
                                       st.rankingMs, st.t - st.startTime)])

\* advertiser?.name ?? "Unknown", for a cache entry or a fetched document
AdvertiserNameOr(found, name, default) == IF found THEN name ELSE default

(***************************************************************************)
(* toEnglish.ts: the translation service, as a fixed table.                *)
(***************************************************************************)
\* kana and kanji are written ~ ^ @: like them these are not \w, not \s, and
\* unchanged by toLowerCase
JapaneseMessage == <<"P","C"," ","~"," ","^","@">>

FrenchMessage == <<"u","n"," ","h","o","t","e","l"," ","i","c","i">>

translateText(text) ==
  IF text = JapaneseMessage THEN <<"b","u","y"," ","a"," ">> \o WordLaptop
  ELSE IF text = FrenchMessage THEN <<"a"," ">> \o WordHotel \o <<" ","h","e","r","e">>
  ELSE text

\* a failed translation loses the text
EnglishOfOrEmpty(text, translated) == IF translated THEN translateText(text) ELSE <<>>

\* toEnglish for a language other than "eng": the translation, or the text
\* itself when the translation call failed
EnglishOf(text, translated) == IF translated THEN translateText(text) ELSE text

\* the messages the gate is run for
Words(ws) == IF Len(ws) = 0 THEN <<>>
             ELSE Concat([i \in 1..(2 * Len(ws) - 1) |->
                            IF i % 2 = 1 THEN ws[(i + 1) \div 2] ELSE <<" ">>])

GateMessages ==
  { [contextText |-> Words(<< <<"i">>, <<"n","e","e","d">>, <<"a">>, WordLaptop >>),
     language |-> "eng"],
    [contextText |-> Words(<< <<"h","e","l","l","o">>, WordLaptop >>), language |-> "eng"],
    [contextText |-> Words(<< <<"B","u","y">>, WordLaptop, WordSale >>), language |-> "eng"],
    [contextText |-> Words(<< WordLaptop, <<"i","s">>, <<"s","a","d">> >>), language |-> "eng"],
    [contextText |-> WordLaptop, language |-> "eng"],
    [contextText |-> Words(<< <<"o","n","e">>, <<"w","a","r","m">>, <<"d","a","y">> >>),
     language |-> "eng"],
    [contextText |-> JapaneseMessage, language |-> "jpn"],
    [contextText |-> FrenchMessage, language |-> "fra"] }

\* snapshot.docs.map(...) of getActiveAds: the data, without the document id
CatalogData(docs) == [i \in 1..Len(docs) |-> docs[i].data]

(***************************************************************************)
(* The pure phases of the pipeline, computed once for the texts, catalogs  *)
(* and recent lists of the gate's calls.  Memoised(table, key, value) is   *)
(* value, taken from the table when the key is in it.                      *)
(***************************************************************************)
Memoised(table, key, value) == IF key \in DOMAIN table THEN table[key] ELSE value

GateTexts ==
  {m.contextText : m \in GateMessages} \cup
  {translateText(m.contextText) : m \in GateMessages}

Catalogs == {CatalogData(ActiveAdDocs), <<>>}

RecentLists == { << <<>>, <<>> >>, << <<"ad-1">>, <<"adv-1">> >> }

\* scoreOpportunity for the messages of the gate's calls, computed once
OpportunityTable ==
  [m \in GateMessages |-> scoreOpportunity(m.contextText, m.language)]

TokenizeTable == [text \in GateTexts |-> tokenize(text)]

CandidatesTable ==
  [x \in {<<TokenizeTable[text], ads, <<>> >> : text \in GateTexts, ads \in Catalogs} |->
     CandidatesFrom(x[1], x[2], x[3])]

RankTable ==
  [x \in {<<CandidatesTable[y], r[1], r[2]>> : y \in DOMAIN CandidatesTable,
                                              r \in RecentLists} |->
     rankCandidates(x[1], x[2], x[3])]

\* the one element of a singleton: { F(x) : x \in {e} } evaluates e once
Only(S) == CHOOSE x \in S : TRUE

\* phase 4 and toResolvedAd up to getAdvertiser; random are the draws of
\* selectWithExploration
V2Select(st0, ranked, advCache, random) ==
  LET selected == selectWithExploration(ranked, EPSILON, random).selected
      st1 == [st0 EXCEPT !.calls = @ \cup {"selectWithExploration"}]
      st2 == [st1 EXCEPT !.selected = selected.val, !.now = st1.t,
                         !.calls = @ \cup {"getAdvertiser"}]
      advertiserId == selected.val.ad.advertiserId
  IN  IF ~selected.has THEN V2ExitEmpty(st1, st1.candidateMs, st1.rankingMs)
      ELSE IF Fresh(advCache[advertiserId], st2.now)
        THEN V2FromAdvertiser(st2, advCache[advertiserId].name)
      ELSE [st2 EXCEPT !.pc = "advertiser"]

\* phase 3; dRank is the time ranking takes
V2Rank(st0, candidates, advCache, dRank, random) ==
  LET st1 == [st0 EXCEPT !.candidateMs = st0.t - st0.candStart,
                         !.candidateCount = Len(candidates)]
      st2 == [st1 EXCEPT !.t = st0.t + dRank, !.rankingMs = dRank,
                         !.calls = @ \cup {"rankCandidates"}]
  IN  IF Len(candidates) = 0 THEN V2ExitEmpty(st1, st1.candidateMs, 0)
      ELSE Only({ V2Select(st2, ranked, advCache, random) :
                    ranked \in {Memoised(RankTable,
                                         <<candidates, st0.recentAdIds,
                                           st0.recentAdvertiserIds>>,
                                         rankCandidates(candidates, st0.recentAdIds,
                                                        st0.recentAdvertiserIds))} })

\* from the return of getActiveAds: the rest of generateCandidates, then
\* phases 3 and 4
V2FromAds(st0, ads, formats, advCache, dRank, random) ==
  Only({ V2Rank(st0, candidates, advCache, dRank, random) :
           candidates \in {Memoised(CandidatesTable, <<st0.keywords, ads, formats>>,
                                    CandidatesFrom(st0.keywords, ads, formats))} })

\* tokenize has returned: getActiveAds up to its fetch
V2FromKeywords(st0, keywords, adsCacheNow, advCache, dRank, random) ==
  LET st1 == [st0 EXCEPT !.keywords = keywords]
      st2 == [st1 EXCEPT !.now = st0.t, !.calls = @ \cup {"getActiveAds"}]
  IN  IF Len(keywords) = 0 THEN V2ExitEmpty(st1, st1.t - st1.candStart, 0)
      ELSE IF Fresh(adsCacheNow, st2.now)
        THEN V2FromAds(st2, adsCacheNow.data, <<>>, advCache, dRank, random)
      ELSE [st2 EXCEPT !.pc = "ads"]

\* from the return of toEnglish
V2FromEnglish(st0, englishText, adsCacheNow, advCache, dRank, random) ==
  Only({ V2FromKeywords(st0, keywords, adsCacheNow, advCache, dRank, random) :
           keywords \in {Memoised(TokenizeTable, englishText,
                                  tokenize(englishText))} })

\* the low-opportunity exit dropped
LowOpportunityNever(oppScore) == FALSE

\* only a score of 0 takes the low-opportunity exit
LowOpportunityZeroOnly(oppScore) == oppScore = 0

\* oppScore < T_LOW
LowOpportunity(oppScore) == oppScore < T_LOW

\* decideAdV2 after phase 1: the low-opportunity exit, and generateCandidates
\* up to the translation call (toEnglish returns the text itself for "eng")
V2FromOpportunity(st0, opp, contextText_, adsCacheNow, advCache, dRank, random) ==
  LET st1 == [st0 EXCEPT !.oppScore = opp.score, !.oppIntent = opp.intent]
      st2 == [st1 EXCEPT !.candStart = st1.t, !.calls = @ \cup {"toEnglish"}]
  IN  IF LowOpportunity(opp.score) THEN V2ExitEmpty(st1, 0, 0)
      ELSE IF st0.language = "eng"
        THEN V2FromEnglish(st2, contextText_, adsCacheNow, advCache, dRank, random)
      ELSE [st2 EXCEPT !.pc = "translate", !.calls = @ \cup {"translateText"}]

\* decideAdV2 from its call; dOpp is the time scoring takes
V2Begin(contextText_, language, recentAdIds, recentAdvertiserIds, now, adsCacheNow, advCache, dOpp, dRank, random) ==
  LET st0 == [V2Idle EXCEPT !.t = now + dOpp, !.startTime = now,
                            !.language = language,
                            !.recentAdIds = recentAdIds,
                            !.recentAdvertiserIds = recentAdvertiserIds,
                            !.opportunityMs = dOpp]
  IN  Only({ V2FromOpportunity(st0, opp, contextText_, adsCacheNow, advCache,
                               dRank, random) :
               opp \in {Memoised(OpportunityTable,
                                 [contextText |-> contextText_, language |-> language],
                                 scoreOpportunity(contextText_, language))} })

(***************************************************************************)
(* keywordBased.ts: decideAdByKeyword, in the same stretches: up to the    *)
(* translation call, up to the catalog query, up to the advertiser read.   *)
(***************************************************************************)
V1Idle ==
  [pc |-> "idle", language |-> "", normalizedContext |-> <<>>,
   selected |-> NoRanking.ad, ad |-> NoAd]

V1Return(st, ad) == [st EXCEPT !.pc = "resolved", !.ad = ad]

V1FromEnglish(st, englishText) ==
  [st EXCEPT !.pc = "ads", !.normalizedContext = normalize(englishText)]

V1Begin(contextText_, language) ==
  LET st == [V1Idle EXCEPT !.language = language]
  IN  IF language \notin SUPPORTED_LANGUAGES THEN V1Return(st, NoAd)
      ELSE IF language = "eng" THEN V1FromEnglish(st, contextText_)
      ELSE [st EXCEPT !.pc = "translate"]

\* k is the draw of Math.random(), k / RandRes
V1FromAds(st, docs, k) ==
  LET topCandidates == TopCandidates(docs, st.normalizedContext)
      selected == topCandidates[RandomIndex(k, Len(topCandidates)) + 1]
  IN  IF Len(docs) = 0 \/ Len(topCandidates) = 0 THEN V1Return(st, NoAd)
      ELSE [st EXCEPT !.pc = "advertiser", !.selected = selected]

V1FromAdvertiser(st, advertiserName) ==
  V1Return(st, ResolvedAd(OrElse(st.selected.id, ""), st.selected.advertiserId,
                          advertiserName, st.selected.format))

(***************************************************************************)
(* featureFlags.ts: getV2TimeoutMs, and the delay setTimeout gives it (a   *)
(* delay below 1 ms is 1 ms).                                              *)
(***************************************************************************)
getV2TimeoutMs(e) ==
  LET parsed == parseInt(e.V2_TIMEOUT_MS.val)
  IN  IF ~Truthy(e.V2_TIMEOUT_MS) THEN 200
      ELSE IF parsed.nan THEN 200 ELSE parsed.val

TimerDelay(ms) == IF ms < 1 THEN 1 ELSE ms

TTL_MS == 60 * 1000

NoAdsCache == [has |-> FALSE, data |-> <<>>, expiresAt |-> 0]

NoAdvertiserEntry == [has |-> FALSE, name |-> "", expiresAt |-> 0]

AdvertiserIds == {"adv-1", "adv-2"}

(***************************************************************************)
(* api/requests/route.ts: decideAd, the strategy gate.                     *)
(* One action is what the event loop runs without interruption: the code   *)
(* from one callback of a timer or of finished input/output up to the      *)
(* point where every run awaits input/output or a timer again.  Promise    *)
(* reactions run within the action that settles the promise.               *)
(***************************************************************************)
NoV2Meta == [has |-> FALSE, val |-> NoMeta]

DecisionResult(ad, algorithmVersion, v2Meta) ==
  [ad |-> ad, algorithmVersion |-> algorithmVersion, v2Meta |-> v2Meta]

MaxTicks == 2

\* the time a phase of synchronous code takes, in ms; the phases of one run
\* (scoring, ranking) take the same time
SyncMs == {1}

\* the amounts the clock advances by between two callbacks
TickMs == {100, TTL_MS}

GateIdle == [pc |-> "start", timer |-> "unset", deadline |-> 0]

\* `const ad = await decideAdByKeyword(...); return { ad, algorithmVersion: "v1" }`
\* with the run of decideAdByKeyword at v1new
V1Outcome(g, v1new, tr) ==
  /\ v1' = v1new
  /\ IF v1new.pc = "resolved"
       THEN /\ gate' = [g EXCEPT !.pc = "returned"]
            /\ returns' = Append(returns, DecisionResult(v1new.ad, "v1", NoV2Meta))
            /\ trace' = Append(tr, "return-v1")
     ELSE IF v1new.pc = "rejected"
       THEN /\ gate' = [g EXCEPT !.pc = "threw"]
            /\ returns' = returns
            /\ trace' = Append(tr, "throw")
     ELSE /\ gate' = [g EXCEPT !.pc = "v1"]
          /\ returns' = returns
          /\ trace' = tr

\* a race that every settlement settles again
RaceSettlesAgain(g) == g.pc \in {"racing", "v1", "returned"}

\* await Promise.race([v2Promise, timeoutPromise]): only the first settlement
\* of the race is seen by decideAd
RaceSettles(g) == g.pc = "racing"

\* a catch block that throws what it caught
CatchRethrows(g, tr) ==
  /\ gate' = [g EXCEPT !.pc = "threw"]
  /\ trace' = Append(tr, "throw")
  /\ UNCHANGED <<v1, returns>>

\* catch (error) { console.warn(...); const ad = await decideAdByKeyword(...);
\*                 return { ad, algorithmVersion: "v1" } }
\* entered when the race rejects: decideAdV2 threw, or the timer fired
CatchFallsBack(g, tr) ==
  V1Outcome(g, V1Begin(call.contextText, call.language), Append(tr, "fallback"))

V2Outcome(g, v2new, tr) ==
  LET settled == IF v2new.pc = "resolved" THEN Append(tr, "v2-resolved")
                 ELSE IF v2new.pc = "rejected" THEN Append(tr, "v2-rejected")
                 ELSE tr
  IN  /\ v2' = v2new
      /\ IF RaceSettles(g) /\ v2new.pc = "resolved"
           THEN /\ gate' = [g EXCEPT !.pc = "returned"]
                /\ returns' = Append(returns,
                                     DecisionResult(v2new.ad, "v2", Some(v2new.meta)))
                /\ trace' = Append(settled, "return-v2")
                /\ v1' = v1
         ELSE IF RaceSettles(g) /\ v2new.pc = "rejected"
           THEN CatchFallsBack(g, settled)
         ELSE /\ gate' = g
              /\ trace' = settled
              /\ UNCHANGED <<v1, returns>>

\* the draws the gate is run with: explore with the first or the last of the
\* top five, or exploit
GateTapes == { <<0, 0>>, <<0, RandRes - 1>>, <<RandRes - 1, 0>> }

\* decideAd from its call to its first await of input/output or of the race
GateStart ==
  /\ gate.pc = "start"
  /\ IF ~isV2Enabled(env, call.appId)
       THEN /\ V1Outcome(gate, V1Begin(call.contextText, call.language), trace)
            /\ UNCHANGED <<v2, clock>>
       ELSE \E d \in SyncMs, random \in GateTapes :
              LET v2new == V2Begin(call.contextText, call.language,
                                   call.recentAdIds, call.recentAdvertiserIds,
                                   clock, adsCache, advertiserCache,
                                   d, d, random)
                  armed == [gate EXCEPT
                              !.pc = "racing", !.timer = "armed",
                              !.deadline = v2new.t + TimerDelay(getV2TimeoutMs(env))]
              IN  /\ V2Outcome(armed, v2new, trace)
                  /\ clock' = v2new.t
  /\ UNCHANGED <<call, adsCache, advertiserCache, adsDb, ticks>>

\* the callback of setTimeout: reject(new Error("V2 timeout"))
TimerFires ==
  /\ gate.timer = "armed"
  /\ clock >= gate.deadline
  /\ LET g == [gate EXCEPT !.timer = "fired"]
         tr == Append(trace, "timer")
     IN  IF RaceSettles(gate)
           THEN CatchFallsBack(g, tr)
           ELSE /\ gate' = g
                /\ trace' = tr
                /\ UNCHANGED <<v1, returns>>
  /\ UNCHANGED <<call, v2, adsCache, advertiserCache, adsDb, clock, ticks>>

\* a run that stops once the race is lost
V2RunsUntilRaceLost(st, g) == g.pc = "racing"

\* whether the decideAdV2 run still takes steps: nothing in decideAd stops it
V2Runs(st, g) == TRUE

\* toEnglish of generateCandidates: client.translateText answers or throws
\* (the catch returns the original text)
V2TranslateDone ==
  /\ v2.pc = "translate"
  /\ V2Runs(v2, gate)
  /\ \E ok \in BOOLEAN, dRank \in {v2.opportunityMs}, random \in GateTapes :
       LET englishText == EnglishOf(call.contextText, ok)
           v2new == V2FromEnglish([v2 EXCEPT !.t = clock,
                                             !.translation = IF ok THEN "ok" ELSE "failed"],
                                  englishText,
                                  adsCache, advertiserCache, dRank, random)
       IN  /\ V2Outcome(gate, v2new, trace)
           /\ clock' = v2new.t
  /\ UNCHANGED <<call, adsCache, advertiserCache, adsDb, ticks>>

\* getActiveAds: the Firestore query answers (the cache entry is written) or throws
V2AdsDone ==
  /\ v2.pc = "ads"
  /\ V2Runs(v2, gate)
  /\ \/ \E dRank \in {v2.opportunityMs}, random \in GateTapes :
          LET data == CatalogData(adsDb)
              v2new == V2FromAds([v2 EXCEPT !.t = clock], data, <<>>,
                                 advertiserCache, dRank, random)
          IN  /\ adsCache' = [has |-> TRUE, data |-> data,
                              expiresAt |-> v2.now + TTL_MS]
              /\ V2Outcome(gate, v2new, Append(trace, "ads-cache-write"))
              /\ clock' = v2new.t
     \/ /\ V2Outcome(gate, [v2 EXCEPT !.pc = "rejected"], trace)
        /\ UNCHANGED <<adsCache, clock>>
  /\ UNCHANGED <<call, advertiserCache, adsDb, ticks>>

\* getAdvertiser: the Firestore read answers (the entry is written, or deleted
\* when the document does not exist) or throws
V2AdvertiserDone ==
  /\ v2.pc = "advertiser"
  /\ V2Runs(v2, gate)
  /\ \/ LET advertiserId == v2.selected.ad.advertiserId
            exists == advertiserId \in DOMAIN AdvertiserNames
            name == AdvertiserNameOr(exists, AdvertiserNames[advertiserId], "Unknown")
        IN  /\ advertiserCache' =
                 [advertiserCache EXCEPT ![advertiserId] =
                    IF exists
                      THEN [has |-> TRUE, name |-> name, expiresAt |-> v2.now + TTL_MS]
                      ELSE NoAdvertiserEntry]
            /\ V2Outcome(gate, V2FromAdvertiser([v2 EXCEPT !.t = clock], name),
                         Append(trace, "advertiser-cache-write"))
     \/ /\ V2Outcome(gate, [v2 EXCEPT !.pc = "rejected"], trace)
        /\ UNCHANGED advertiserCache
  /\ UNCHANGED <<call, adsCache, adsDb, clock, ticks>>

\* toEnglish of decideAdByKeyword
V1TranslateDone ==
  /\ v1.pc = "translate"
  /\ \E ok \in BOOLEAN :
       V1Outcome(gate, V1FromEnglish(v1, IF ok THEN translateText(call.contextText)
                                         ELSE call.contextText), trace)
  /\ UNCHANGED <<call, v2, adsCache, advertiserCache, adsDb, clock, ticks>>

\* the query of collection "ads" answers or throws
V1AdsDone ==
  /\ v1.pc = "ads"
  /\ \/ \E k \in {0, RandRes - 1} : V1Outcome(gate, V1FromAds(v1, adsDb, k), trace)
     \/ V1Outcome(gate, [v1 EXCEPT !.pc = "rejected"], trace)
  /\ UNCHANGED <<call, v2, adsCache, advertiserCache, adsDb, clock, ticks>>

\* the read of the advertiser document answers or throws
V1AdvertiserDone ==
  /\ v1.pc = "advertiser"
  /\ \/ LET advertiserId == v1.selected.advertiserId
            exists == advertiserId \in DOMAIN AdvertiserNames
        IN  V1Outcome(gate,
                      V1FromAdvertiser(v1, AdvertiserNameOr(exists,
                                             AdvertiserNames[advertiserId], "Advertiser")),
                      trace)
     \/ V1Outcome(gate, [v1 EXCEPT !.pc = "rejected"], trace)
  /\ UNCHANGED <<call, v2, adsCache, advertiserCache, adsDb, clock, ticks>>

\* time passes between two callbacks, while a timer or input/output is pending
Tick ==
  /\ ticks < MaxTicks
  /\ \/ gate.timer = "armed"
     \/ v2.pc \in {"translate", "ads", "advertiser"}
     \/ v1.pc \in {"translate", "ads", "advertiser"}
  /\ \E d \in TickMs : clock' = clock + d
  /\ ticks' = ticks + 1
  /\ UNCHANGED <<call, gate, returns, v2, v1, adsCache, advertiserCache, adsDb, trace>>

\* the calls the gate is run for: every message without recent ads, and the
\* two messages of 15 characters ("i need a laptop", "Buy laptop sale") with
\* a recent ad as well
GateCalls ==
  { c \in { [appId |-> <<"a","p","p","1">>, contextText |-> m.contextText,
             language |-> m.language, recentAdIds |-> r[1],
             recentAdvertiserIds |-> r[2]] : m \in GateMessages, r \in RecentLists } :
      c.recentAdIds = <<>> \/ Len(c.contextText) = 15 }

NoCall ==
  [appId |-> <<>>, contextText |-> <<>>, language |-> "",
   recentAdIds |-> <<>>, recentAdvertiserIds |-> <<>>]

NoAdvertiserCache == [a \in AdvertiserIds |-> NoAdvertiserEntry]

\* the cache states a call may find: nothing cached, entries loaded at time 0,
\* a catalog entry that has expired
CacheStates ==
  { [ads |-> NoAdsCache, advertisers |-> NoAdvertiserCache],
    [ads |-> [has |-> TRUE, data |-> CatalogData(ActiveAdDocs), expiresAt |-> TTL_MS],
     advertisers |-> [NoAdvertiserCache EXCEPT !["adv-1"] =
                        [has |-> TRUE, name |-> "Acme", expiresAt |-> TTL_MS]]],
    [ads |-> [has |-> TRUE, data |-> CatalogData(ActiveAdDocs), expiresAt |-> 0],
     advertisers |-> NoAdvertiserCache] }

GateEnvironments ==
  { [EnvDefault EXCEPT !.V2_ENABLED = EnvSet(StrFalse)],
    [EnvDefault EXCEPT !.V2_ENABLED = EnvSet(StrTrue)],
    [EnvDefault EXCEPT !.V2_ENABLED = EnvSet(StrTrue), !.V2_TIMEOUT_MS = EnvSet(<<"0">>)] }

(***************************************************************************)
(* The results a decideAd call can return, for the POST handler: the runs  *)
(* of decideAdV2 and decideAdByKeyword taken to their end, every awaited   *)
(* input/output answering at once.  translated says whether the            *)
(* translation service answered.                                           *)
(***************************************************************************)
\* advertiser?.name ?? "Unknown" (v2) and advSnap.exists ? name : "Advertiser" (v1)
AdvertiserNameOf(advertiserId, default) ==
  AdvertiserNameOr(advertiserId \in DOMAIN AdvertiserNames,
                   AdvertiserNames[advertiserId], default)

RECURSIVE V2Complete(_, _, _, _, _)
V2Complete(st, text, docs, random, translated) ==
  IF st.pc = "translate"
    THEN V2Complete(V2FromEnglish(st, EnglishOf(text, translated), NoAdsCache,
                                  [a \in AdvertiserIds |-> NoAdvertiserEntry],
                                  st.opportunityMs, random),
                    text, docs, random, translated)
  ELSE IF st.pc = "ads"
    THEN V2Complete(V2FromAds(st, CatalogData(docs), <<>>,
                              [a \in AdvertiserIds |-> NoAdvertiserEntry],
                              st.opportunityMs, random),
                    text, docs, random, translated)
  ELSE IF st.pc = "advertiser"
    THEN V2FromAdvertiser(st, AdvertiserNameOf(st.selected.ad.advertiserId, "Unknown"))
  ELSE st

RECURSIVE V1Complete(_, _, _, _, _)
V1Complete(st, text, docs, k, translated) ==
  IF st.pc = "translate"
    THEN V1Complete(V1FromEnglish(st, EnglishOf(text, translated)),
                    text, docs, k, translated)
  ELSE IF st.pc = "ads"
    THEN V1Complete(V1FromAds(st, docs, k), text, docs, k, translated)
  ELSE IF st.pc = "advertiser"
    THEN V1FromAdvertiser(st, AdvertiserNameOf(st.selected.advertiserId, "Advertiser"))
  ELSE st

\* what decideAdByKeyword(contextText, language) can resolve with
V1Results(text, language, docs) ==
  { V1Complete(V1Begin(text, language), text, docs, k, translated).ad :
      k \in {0, RandRes - 1}, translated \in BOOLEAN }

\* what decideAdV2(contextText, language, recentAdIds, recentAdvertiserIds)
\* can resolve with (its timings are differences of clock readings, the same
\* at whatever time it is called: it is called at 0)
V2Results(text, language, recentAdIds, recentAdvertiserIds, docs) ==
  { V2Complete(V2Begin(text, language, recentAdIds, recentAdvertiserIds, 0,
                       NoAdsCache, [a \in AdvertiserIds |-> NoAdvertiserEntry],
                       d, d, random),
               text, docs, random, translated) :
      d \in SyncMs, random \in GateTapes, translated \in BOOLEAN }

\* what decideAd can return: the result of v2 when the caller is eligible and
\* v2 wins the race, the result of v1 otherwise
DecideAdResults(e, appId, text, language, recentAdIds, recentAdvertiserIds, docs) ==
  LET byV1 == { DecisionResult(ad, "v1", NoV2Meta) :
                  ad \in V1Results(text, language, docs) }
      byV2 == { DecisionResult(st.ad, "v2", Some(st.meta)) :
                  st \in V2Results(text, language, recentAdIds,
                                   recentAdvertiserIds, docs) }
  IN  IF isV2Enabled(e, appId) THEN byV2 \cup byV1 ELSE byV1

(***************************************************************************)
(* Claims about decideAdV2 and the strategy gate.                          *)
(***************************************************************************)
\* the place of event e in the trace of the call, 0 when it has not happened
Pos(e) ==
  IF \E i \in 1..Len(trace) : trace[i] = e
    THEN CHOOSE i \in 1..Len(trace) : trace[i] = e /\ \A j \in 1..(i - 1) : trace[j] # e
    ELSE 0

Before(a, b) == Pos(a) > 0 /\ (Pos(b) = 0 \/ Pos(a) < Pos(b))

V2Eligible == isV2Enabled(env, call.appId)

V2Pending == v2.pc \in {"translate", "ads", "advertiser"}

V2Settled == v2.pc \in {"resolved", "rejected"}

\* C3: a decideAdV2 call whose opportunity score (the score scoreOpportunity
\* gave its message) is below 0.3 (T_LOW) has returned, with no ad, with the score and the intent of the
\* scorer in its metadata, candidateCount 0, candidateMs = 0 and rankingMs = 0,
\* and without having invoked translation, the catalog, ranking, selection or
\* the advertiser lookup.
C3_FailClosed ==
  (v2.pc # "idle" /\ v2.oppScore < T_LOW) =>
     /\ v2.pc = "resolved"
     /\ ~v2.ad.has
     /\ v2.meta.oppScore = v2.oppScore
     /\ v2.meta.oppIntent = v2.oppIntent
     /\ v2.oppIntent \in {"sensitive", "chitchat", "low_intent"}
     /\ v2.meta.candidateCount = 0
     /\ v2.meta.phaseTimings.candidateMs = 0
     /\ v2.meta.phaseTimings.rankingMs = 0
     /\ v2.calls = {}
     /\ \A e \in {"ads-cache-write", "advertiser-cache-write"} : Pos(e) = 0

C3_Witness ==
  /\ v2.pc = "resolved"
  /\ v2.oppScore < T_LOW
  /\ v2.oppIntent = "chitchat"
  /\ v2.meta.phaseTimings.opportunityMs = 1
  /\ Len(returns) = 1
  /\ ~returns[1].ad.has

\* what the results returned so far must be, given the order of the timer and
\* of the settlement of decideAdV2
C4_ResultsRight ==
  V2Eligible =>
    /\ Len(returns) <= 1
    /\ \A i \in 1..Len(returns) :
         /\ returns[i].algorithmVersion = "v2" =>
              /\ v2.pc = "resolved"
              /\ returns[i].ad = v2.ad
              /\ returns[i].v2Meta = Some(v2.meta)
              /\ Before("v2-resolved", "timer")
              /\ v1.pc = "idle"
         /\ returns[i].algorithmVersion = "v1" =>
              /\ v1.pc = "resolved"
              /\ returns[i].ad = v1.ad
              /\ ~returns[i].v2Meta.has
              /\ Before("timer", "v2-resolved") \/ Before("v2-rejected", "timer")
    /\ (Before("timer", "v2-resolved") /\ Before("timer", "v2-rejected")) \/
       Before("v2-rejected", "timer") =>
         /\ v1.pc # "idle"
         /\ gate.pc \in {"v1", "returned", "threw"}
         /\ \A i \in 1..Len(returns) : returns[i].algorithmVersion = "v1"
    /\ (Before("v2-resolved", "timer") /\ Pos("v2-rejected") = 0) =>
         /\ Len(returns) = 1
         /\ returns[1].algorithmVersion = "v2"

\* C4: for a caller v2 is eligible for, decideAd returns at most one result.
\* A result labelled v2 is the one decideAdV2 resolved with, metadata
\* included, and the timer had not fired when it was returned.  When the
\* timer fires before decideAdV2 settles, or decideAdV2 throws before the
\* timer fires, v1 is run, no result is labelled v2, and a result that is
\* returned is the one of v1, without v2 metadata.  A result once returned
\* is never changed and never followed by a second one.
C4_AtMostOneResult ==
  /\ []C4_ResultsRight
  /\ [][returns # <<>> => returns' = returns]_vars

\* decideAdV2 resolved with an ad after the timer had fired and v1 had
\* returned: the call has the one result of v1
C4_Witness ==
  /\ V2Eligible
  /\ Before("timer", "v2-resolved")
  /\ Pos("v2-resolved") > Pos("return-v1")
  /\ Pos("return-v1") > 0
  /\ v2.ad.has
  /\ returns[1].ad.has

\* the timer settled the race while decideAdV2 was still running
TimerWon == Before("timer", "v2-resolved") /\ Before("timer", "v2-rejected")

\* C5: when the timer wins the race the decideAdV2 run is not cancelled: from
\* every state in which the timer has won and the run is still awaiting
\* translation, the catalog or the advertiser, the run goes on and eventually
\* settles (resolves or throws).
C5_RunsToCompletion == (TimerWon /\ V2Pending) ~> V2Settled

\* the catalog cache and the advertiser cache were written by the run after
\* decideAd had returned the result of v1
C5_Witness ==
  /\ TimerWon
  /\ Before("return-v1", "ads-cache-write")
  /\ Before("return-v1", "advertiser-cache-write")
  /\ Pos("advertiser-cache-write") > 0
  /\ v2.pc = "resolved"
  /\ adsCache.has /\ adsCache.expiresAt > TTL_MS

\* the keywords of the run are the tokens of `text`
V2KeywordsOf(text) == v2.keywords = Memoised(TokenizeTable, text, tokenize(text))

\* the translation of a run: not called for "eng"; when it failed the run
\* went on with the original text, when it answered with the translated one
C15_TranslationAbsorbed ==
  v2.pc \notin {"idle", "translate"} =>
    /\ v2.pc \in {"ads", "advertiser", "resolved", "rejected"}
    /\ (call.language = "eng") <=> (v2.translation = "none")
    /\ (call.language = "eng") => "translateText" \notin v2.calls
    /\ "toEnglish" \in v2.calls =>
         /\ v2.translation = "none" => V2KeywordsOf(call.contextText)
         /\ v2.translation = "failed" => V2KeywordsOf(call.contextText)
         /\ v2.translation = "ok" => V2KeywordsOf(translateText(call.contextText))
    /\ v2.pc = "resolved" => (v2.ad.has \/ v2.ad = NoAd) /\ v2.meta # NoMeta

\* C15: decideAdV2 has no error path of its own.  toEnglish returns the text
\* itself, without calling the translator, when the language is "eng"; a
\* failed translation is absorbed and the run goes on with the original
\* text.  A run is rejected only from its await of the catalog fetch or of
\* the advertiser fetch, when that fetch raises; every other step of a run
\* leaves it awaiting the next collaborator or resolved with a decision.
C15_NoErrorPath ==
  /\ []C15_TranslationAbsorbed
  /\ [][(v2'.pc = "rejected" /\ v2.pc # "rejected") => v2.pc \in {"ads", "advertiser"}]_vars

\* the French message, its translation failed: the run went on with the
\* original text ("hotel" is a keyword) and resolved with an ad
C15_Witness ==
  /\ v2.translation = "failed"
  /\ v2.pc = "resolved"
  /\ v2.keywords # <<>>
  /\ v2.ad.has

\* C17: only English and Japanese are supported: a decideAd call whose
\* language (the one the server detected) is neither "eng" nor "jpn" returns
\* no ad, whichever strategy gave the result.
C17_UnsupportedNoAd ==
  \A i \in 1..Len(returns) :
    call.language \notin {"eng", "jpn"} => ~returns[i].ad.has

\* C19: a decideAdV2 run that has returned, by whichever exit, carries a
\* fully populated metadata record: oppScore and oppIntent are the scorer's
\* output for the message, the four timings are present (not negative), the
\* timing of a phase that was not executed is 0 (candidateMs when
\* generateCandidates was not called, rankingMs when rankCandidates was not
\* called), an exit without an ad reports candidateCount 0, and
\* totalMs >= opportunityMs + candidateMs + rankingMs.
C19_MetaPopulated ==
  v2.pc = "resolved" =>
    LET meta == v2.meta
        t == meta.phaseTimings
        opp == OpportunityTable[[contextText |-> call.contextText,
                                 language |-> call.language]]
    IN  /\ meta.oppScore = opp.score
        /\ meta.oppIntent = opp.intent
        /\ \A ms \in {t.opportunityMs, t.candidateMs, t.rankingMs, t.totalMs} : ms >= 0
        /\ t.opportunityMs = v2.opportunityMs
        /\ "toEnglish" \notin v2.calls => t.candidateMs = 0
        /\ "rankCandidates" \notin v2.calls => t.rankingMs = 0
        /\ "rankCandidates" \in v2.calls => t.rankingMs = v2.rankingMs /\ t.rankingMs > 0
        /\ t.totalMs >= t.opportunityMs + t.candidateMs + t.rankingMs
        /\ meta.candidateCount >= 0
        /\ ~v2.ad.has => meta.candidateCount = 0 /\ meta.finalScore = 0
        /\ v2.ad.has => meta.candidateCount > 0 /\ meta.finalScore = v2.selected.expectedValue

\* the zero-candidate exit after a catalog fetch that took time: candidateMs
\* measured, rankingMs 0
C19_Witness ==
  /\ v2.pc = "resolved"
  /\ ~v2.ad.has
  /\ "getActiveAds" \in v2.calls
  /\ "rankCandidates" \notin v2.calls
  /\ v2.meta.phaseTimings.candidateMs >= 100
  /\ v2.meta.phaseTimings.rankingMs = 0
  /\ v2.meta.phaseTimings.totalMs = 1 + v2.meta.phaseTimings.candidateMs

\* the error decideAd threw is the one decideAdByKeyword threw
V1Raised == v1.pc = "rejected"

\* C21: when the timer fires before decideAdV2 settles, decideAd does not
\* throw the timeout: it runs decideAdByKeyword, and once that has resolved
\* decideAd has returned its result, labelled v1 and without v2 metadata.
\* decideAd throws only when decideAdByKeyword itself throws (its catalog
\* query or its advertiser read fails).
C21_TimeoutFallsBack ==
  (V2Eligible /\ TimerWon) =>
     /\ gate.pc \in {"v1", "returned", "threw"}
     /\ v1.pc # "idle"
     /\ gate.pc = "threw" <=> V1Raised
     /\ gate.pc = "v1" <=> v1.pc \in {"translate", "ads", "advertiser"}
     /\ v1.pc = "resolved" =>
          /\ gate.pc = "returned"
          /\ returns = <<DecisionResult(v1.ad, "v1", NoV2Meta)>>
     /\ V1Raised => returns = <<>>

\* the timer fired while decideAdV2 awaited the catalog, and decideAd has
\* returned the ad of v1 while the run is still waiting
C21_Witness ==
  /\ V2Eligible
  /\ TimerWon
  /\ v2.pc = "ads"
  /\ gate.pc = "returned"
  /\ Len(returns) = 1
  /\ returns[1].algorithmVersion = "v1"
  /\ returns[1].ad.has

\* C21 as stated: once the timer has won the race, decideAd never throws
C21_NeverRaises == (V2Eligible /\ TimerWon) => gate.pc # "threw"

\* rankCandidates returns as many elements as it is given, and
\* selectWithExploration an element of any non-empty ranking, whatever the draws
RankingKeepsLength ==
  \A x \in DOMAIN RankTable :
     /\ Len(RankTable[x]) = Len(x[1])
     /\ Len(x[1]) > 0 =>
          \A random \in GateTapes :
             LET selected == selectWithExploration(RankTable[x], EPSILON, random).selected
             IN  /\ selected.has
                 /\ \E i \in 1..Len(RankTable[x]) : RankTable[x][i] = selected.val

\* C22: the exit of decideAdV2 for a null selection is never taken: a run
\* that has called selectWithExploration had candidates and has gone on to
\* getAdvertiser with the element selected.  So a run that has resolved
\* carries an ad exactly when its opportunity score is at least 0.3 (T_LOW)
\* and generateCandidates returned a non-empty list, and a run with such a
\* score and list ends otherwise only by the advertiser lookup throwing.
C22_SelectionNeverNull ==
  /\ RankingKeepsLength
  /\ v2.pc # "idle" =>
       /\ "selectWithExploration" \in v2.calls =>
            /\ v2.candidateCount > 0
            /\ "getAdvertiser" \in v2.calls
            /\ v2.selected # NoRanking
            /\ v2.pc \in {"advertiser", "resolved", "rejected"}
       /\ "rankCandidates" \in v2.calls <=> "selectWithExploration" \in v2.calls
       /\ v2.pc = "resolved" =>
            (v2.ad.has <=> (v2.oppScore >= T_LOW /\ v2.candidateCount > 0))
       /\ (v2.pc = "rejected" /\ v2.candidateCount > 0) =>
            "getAdvertiser" \in v2.calls

\* a run with two candidates, one of them penalised, has resolved with an ad
C22_Witness ==
  /\ v2.pc = "resolved"
  /\ v2.ad.has
  /\ v2.candidateCount >= 2
  /\ v2.recentAdIds # <<>>
  /\ v2.calls = {"toEnglish", "getActiveAds", "rankCandidates",
                 "selectWithExploration", "getAdvertiser"}

\* the message of the call scores below T_LOW
LowOpportunityCall ==
  call # NoCall /\
  OpportunityTable[[contextText |-> call.contextText,
                    language |-> call.language]].score < T_LOW

\* C26: for a caller v2 is eligible for, a decideAd call whose message
\* scores below 0.3 (T_LOW) never returns an ad.  decideAdV2 takes its
\* low-opportunity exit before its first await, so its promise is resolved
\* when the race is awaited: the result returned is the one of v2, without
\* an ad, and neither the timer (whatever the timeout) nor an error gets
\* decideAdByKeyword run.
C26_SuppressionSurvives ==
  (V2Eligible /\ LowOpportunityCall) =>
     /\ \A i \in 1..Len(returns) :
          /\ ~returns[i].ad.has
          /\ returns[i].algorithmVersion = "v2"
     /\ v1.pc = "idle"
     /\ gate.pc \in {"start", "returned"}
     /\ Pos("fallback") = 0

\* the one-word message "laptop" (0.2, low_intent), which v1 answers with an
\* ad, under a timeout of 0 ms: the result of v2 was returned without an ad,
\* and the timer fired afterwards
C26_Witness ==
  /\ V2Eligible
  /\ LowOpportunityCall
  /\ call.contextText = WordLaptop
  /\ env.V2_TIMEOUT_MS = EnvSet(<<"0">>)
  /\ \E ad \in V1Results(call.contextText, call.language, adsDb) : ad.has
  /\ Len(returns) = 1
  /\ Before("return-v2", "timer")
  /\ Pos("timer") > 0

(***************************************************************************)
(* sdk/core/client.ts: requestAd, the body the SDK posts.                  *)
(***************************************************************************)
\* formats of an options object that has none
NoFormats == <<>>

\* { ...payload, appId: config.appId, sdkVersion: config.sdkVersion }
requestAd(payload, configAppId) ==
  [appId |-> configAppId, conversationId |-> payload.conversationId,
   messageId |-> payload.messageId, contextText |-> payload.contextText,
   formats |-> payload.formats]

(***************************************************************************)
(* api/requests/route.ts: POST.  One action per stretch between the points *)
(* where the handler awaits Firestore or decideAd.                         *)
(***************************************************************************)
COOLDOWN_MS == 60 * 1000

RECENT_WINDOW_MS == 24 * 60 * 60 * 1000

MaxPosts == 2

PostIds == 1..MaxPosts

MaxPostTicks == 3

\* the amount the clock advances by between two callbacks of the handlers
PostTickMs == 30 * 1000

\* franc(contextText), for the messages of the model: short texts are "und"
franc(text) ==
  IF text = JapaneseMessage THEN "jpn"
  ELSE IF text = FrenchMessage THEN "fra"
  ELSE "und"

NoDecision == [has |-> FALSE, val |-> DecisionResult(NoAd, "", NoV2Meta)]

NoDoc ==
  [conversationId |-> "", messageId |-> "", status |-> "", createdAt |-> 0,
   decidedAdId |-> MissingStr, decidedAdvertiserId |-> MissingStr,
   algorithmVersion |-> MissingStr, v2Meta |-> NoV2Meta]

NoResponse == [status |-> 0, ad |-> NoAd]

PostIdle ==
  [pc |-> "idle",
   body |-> [appId |-> <<>>, conversationId |-> "", messageId |-> "",
             contextText |-> <<>>, formats |-> NoFormats],
   language |-> "", recentAdIds |-> <<>>, recentAdvertiserIds |-> <<>>,
   decidedAd |-> NoAd, requestDoc |-> NoDoc, response |-> NoResponse]

\* .where("conversationId", "==", id).where("status", "==", "success")
\* .orderBy("meta.createdAt", "desc").limit(10)
RECURSIVE OrderByCreatedAtDesc(_)
OrderByCreatedAtDesc(docs) ==
  IF docs = <<>> THEN <<>>
  ELSE LET i == CHOOSE j \in 1..Len(docs) :
                  \A k \in 1..Len(docs) :
                     \/ docs[k].createdAt < docs[j].createdAt
                     \/ docs[k].createdAt = docs[j].createdAt /\ k <= j
       IN  <<docs[i]>> \o
           OrderByCreatedAtDesc(SubSeq(docs, 1, i - 1) \o SubSeq(docs, i + 1, Len(docs)))

RecentSuccessSnap(collection, conversationId) ==
  LET IsHit(doc) == doc.conversationId = conversationId /\ doc.status = "success"
      ordered == OrderByCreatedAtDesc(SelectSeq(collection, IsHit))
  IN  SubSeq(ordered, 1, Min(10, Len(ordered)))

\* only the latest log of the snapshot is looked at
CollectRecentLatest(docs, nowTs, field) ==
  IF docs = <<>> THEN <<>>
  ELSE LET id == IF field = "ad" THEN Head(docs).decidedAdId
                 ELSE Head(docs).decidedAdvertiserId
       IN  IF nowTs - Head(docs).createdAt < RECENT_WINDOW_MS /\ id.has /\ id.val # ""
             THEN <<id.val>> ELSE <<>>

\* the ids pushed by the loop over the snapshot: those of the last 24 hours
\* that are truthy
RECURSIVE CollectRecent(_, _, _)
CollectRecent(docs, nowTs, field) ==
  IF docs = <<>> THEN <<>>
  ELSE LET id == IF field = "ad" THEN Head(docs).decidedAdId
                 ELSE Head(docs).decidedAdvertiserId
           rest == CollectRecent(Tail(docs), nowTs, field)
       IN  IF nowTs - Head(docs).createdAt < RECENT_WINDOW_MS /\ id.has /\ id.val # ""
             THEN <<id.val>> \o rest
             ELSE rest

\* the cooldown test on the latest 'success' log of the conversation
WithinCooldown(snap, nowTs) ==
  snap # <<>> /\ nowTs - snap[1].createdAt < COOLDOWN_MS

\* section 4: the request log, built at time now
RequestDocOf(body, decisionResult, now) ==
  LET decidedAd == IF decisionResult.has THEN decisionResult.val.ad ELSE NoAd
  IN  [conversationId |-> body.conversationId, messageId |-> body.messageId,
       status |-> IF decidedAd.has THEN "success" ELSE "no_ad",
       createdAt |-> now,
       decidedAdId |-> IF decidedAd.has THEN Some(decidedAd.val.id) ELSE MissingStr,
       decidedAdvertiserId |-> IF decidedAd.has THEN Some(decidedAd.val.advertiserId)
                               ELSE MissingStr,
       algorithmVersion |-> IF decisionResult.has
                              THEN Some(decisionResult.val.algorithmVersion)
                              ELSE MissingStr,
       v2Meta |-> IF decisionResult.has THEN decisionResult.val.v2Meta ELSE NoV2Meta]

\* the options the SDK is called with, and the bodies it posts
PostOptions ==
  LET Buy == Words(<< <<"B","u","y">>, WordLaptop, WordSale >>)
      Hello == Words(<< <<"h","e","l","l","o">>, WordLaptop >>)
      Options(c, text, formats) ==
        [conversationId |-> c, messageId |-> "m", contextText |-> text,
         formats |-> formats]
  IN  { Options("chat-1", Buy, NoFormats),
        Options("chat-1", Buy, <<"lead_gen">>),
        Options("chat-2", Buy, NoFormats),
        Options("chat-1", Hello, NoFormats),
        Options("chat-1", <<>>, NoFormats) }

PostBodies == { requestAd(options, <<"a","p","p","1">>) : options \in PostOptions }

\* the bodies of one conversation that keeps asking for the same thing
FatigueBodies ==
  { body \in PostBodies :
      /\ body.conversationId = "chat-1"
      /\ body.formats = NoFormats
      /\ Len(body.contextText) = 15 }

\* a 'success' log written by an earlier request of a conversation
LoggedSuccess(conversationId, createdAt, adId, advertiserId) ==
  [NoDoc EXCEPT !.conversationId = conversationId, !.messageId = "m",
                !.status = "success", !.createdAt = createdAt,
                !.decidedAdId = Some(adId), !.decidedAdvertiserId = Some(advertiserId),
                !.algorithmVersion = Some("v1")]

\* the logs a conversation may have when the requests of the model arrive:
\* none; one success 24 hours old; two successes one and two minutes old
\* with different advertisers; eleven successes, the oldest of them the only
\* one of its advertiser
Histories ==
  { <<>>,
    << LoggedSuccess("chat-1", 0 - RECENT_WINDOW_MS, "ad-1", "adv-1") >>,
    << LoggedSuccess("chat-1", 0 - 2 * COOLDOWN_MS, "ad-3", "adv-2"),
       LoggedSuccess("chat-1", 0 - COOLDOWN_MS, "ad-1", "adv-1") >>,
    << LoggedSuccess("chat-1", 0 - 2 * COOLDOWN_MS, "ad-3", "adv-2") >> \o
      [i \in 1..10 |-> LoggedSuccess("chat-1", 0 - COOLDOWN_MS, "ad-2", "adv-1")] }

\* decideAd for the calls the handlers make first, computed once
DecideAdTable ==
  [x \in { <<e, body.appId, body.contextText, "eng", r[1], r[2], ActiveAdDocs>> :
             e \in { EnvDefault, [EnvDefault EXCEPT !.V2_ENABLED = EnvSet(StrTrue)] },
             body \in PostBodies, r \in RecentLists } |->
     DecideAdResults(x[1], x[2], x[3], x[4], x[5], x[6], x[7])]

PostEnvironments ==
  { EnvDefault, [EnvDefault EXCEPT !.V2_ENABLED = EnvSet(StrTrue)] }

Respond(post, status, ad) ==
  [post EXCEPT !.pc = "done", !.response = [status |-> status, ad |-> ad]]

\* sections 1 and 2, and the query of section 3 is issued; the handlers are
\* numbered in the order their requests arrive
PostReceive(h) ==
  /\ posts[h].pc = "idle"
  /\ \A g \in 1..(h - 1) : posts[g].pc # "idle"
  /\ \E body \in traffic :
       LET detected == franc(body.contextText)
           language == IF detected = "und" THEN "eng" ELSE detected
       IN  posts' = [posts EXCEPT ![h] =
             IF \/ body.appId = <<>> \/ body.conversationId = ""
                \/ body.messageId = "" \/ body.contextText = <<>>
               THEN Respond([@ EXCEPT !.body = body], 400, NoAd)
               ELSE [@ EXCEPT !.pc = "query", !.body = body, !.language = language]]
  /\ UNCHANGED <<requests, traffic, gateVars>>

\* the query answers: the cooldown test and the recent ids; decideAd is
\* called, or the log of a request within the cooldown is built and its add
\* issued.  A query that throws is answered 500.
PostQueryDone(h) ==
  /\ posts[h].pc = "query"
  /\ \/ LET snap == RecentSuccessSnap(requests, posts[h].body.conversationId)
            nowTs == clock
            ids == IF snap = <<>> THEN <<>> ELSE CollectRecent(snap, nowTs, "ad")
            advertiserIds == IF snap = <<>> THEN <<>>
                             ELSE CollectRecent(snap, nowTs, "advertiser")
        IN  posts' = [posts EXCEPT ![h] =
              IF WithinCooldown(snap, nowTs)
                THEN [@ EXCEPT !.pc = "add", !.recentAdIds = ids,
                               !.recentAdvertiserIds = advertiserIds,
                               !.requestDoc = RequestDocOf(posts[h].body, NoDecision, clock)]
                ELSE [@ EXCEPT !.pc = "decide", !.recentAdIds = ids,
                               !.recentAdvertiserIds = advertiserIds]]
     \/ posts' = [posts EXCEPT ![h] = Respond(@, 500, NoAd)]
  /\ UNCHANGED <<requests, traffic, gateVars>>

\* decideAd returns (the log is built and its add issued) or throws (500)
PostDecideDone(h) ==
  /\ posts[h].pc = "decide"
  /\ \/ \E result \in
            Memoised(DecideAdTable,
                     <<env, posts[h].body.appId, posts[h].body.contextText,
                       posts[h].language, posts[h].recentAdIds,
                       posts[h].recentAdvertiserIds, adsDb>>,
                     DecideAdResults(env, posts[h].body.appId,
                                     posts[h].body.contextText, posts[h].language,
                                     posts[h].recentAdIds,
                                     posts[h].recentAdvertiserIds, adsDb)) :
          posts' = [posts EXCEPT ![h] =
            [@ EXCEPT !.pc = "add", !.decidedAd = result.ad,
                      !.requestDoc = RequestDocOf(posts[h].body, Some(result), clock)]]
     \/ posts' = [posts EXCEPT ![h] = Respond(@, 500, NoAd)]
  /\ UNCHANGED <<requests, traffic, gateVars>>

\* db.collection("requests").add answers (the log is stored, 200 with the ad)
\* or throws (500)
PostAddDone(h) ==
  /\ posts[h].pc = "add"
  /\ \/ /\ requests' = Append(requests, posts[h].requestDoc)
        /\ posts' = [posts EXCEPT ![h] = Respond(@, 200, @.decidedAd)]
     \/ /\ posts' = [posts EXCEPT ![h] = Respond(@, 500, NoAd)]
        /\ UNCHANGED requests
  /\ UNCHANGED <<traffic, gateVars>>

\* time passes between two callbacks of the handlers
PostTick ==
  /\ ticks < MaxPostTicks
  /\ clock' = clock + PostTickMs
  /\ ticks' = ticks + 1
  /\ UNCHANGED <<call, gate, returns, v2, v1, adsCache, advertiserCache, adsDb, trace,
                 postVars>>

(***************************************************************************)
(* Claims about POST /api/requests.                                        *)
(***************************************************************************)
\* C7: no two 'success' request logs of one conversation have creation
\* times less than 60 s (COOLDOWN_MS) apart, however the POST calls of the
\* conversation interleave.
C7_Cooldown ==
  \A i, j \in 1..Len(requests) :
     ( /\ i # j
       /\ requests[i].status = "success"
       /\ requests[j].status = "success"
       /\ requests[i].conversationId = requests[j].conversationId
       /\ requests[i].createdAt <= requests[j].createdAt )
     => requests[j].createdAt - requests[i].createdAt >= COOLDOWN_MS

\* C8: a request posted by the SDK with a non-empty formats list is answered
\* with no ad or with an ad whose format is in the list, whichever of v1 and
\* v2 decided it.
C8_FormatsHonoured ==
  \A h \in PostIds :
     ( /\ posts[h].pc = "done"
       /\ posts[h].response.ad.has
       /\ posts[h].body.formats # NoFormats )
     => posts[h].response.ad.val.format \in SeqRange(posts[h].body.formats)

\* the ranking decideAdV2 computes for the decideAd call of a handler: none
\* when the message scores below T_LOW
PostRanking(post) ==
  LET text == post.body.contextText
      opp == Memoised(OpportunityTable,
                      [contextText |-> text, language |-> post.language],
                      scoreOpportunity(text, post.language))
      keywords == Memoised(TokenizeTable, text, tokenize(text))
      candidates == Memoised(CandidatesTable, <<keywords, CatalogData(adsDb), <<>> >>,
                             CandidatesFrom(keywords, CatalogData(adsDb), <<>>))
  IN  IF opp.score < T_LOW THEN <<>>
      ELSE rankCandidates(candidates, post.recentAdIds, post.recentAdvertiserIds)

\* log i of the collection is a success of the conversation, less than 24
\* hours old at time nowTs and among the 10 most recent successes
RecentSuccess(i, conversationId, nowTs) ==
  LET Success(j) == /\ requests[j].conversationId = conversationId
                    /\ requests[j].status = "success"
      Newer(j) == \/ requests[j].createdAt > requests[i].createdAt
                  \/ requests[j].createdAt = requests[i].createdAt /\ j > i
  IN  /\ Success(i)
      /\ nowTs - requests[i].createdAt < RECENT_WINDOW_MS
      /\ Cardinality({ j \in 1..Len(requests) : Success(j) /\ Newer(j) }) < 10

\* handler h gets the answer of its query and calls decideAd in this step
CallsDecideAd(h) == posts[h].pc = "query" /\ posts'[h].pc = "decide"

\* the catalog document whose data the ad is
DocIdOf(ad) == { adsDb[d].id : d \in { e \in 1..Len(adsDb) : adsDb[e].data = ad } }

\* C27: when a handler calls decideAd for a caller v2 is eligible for, every
\* ad X that answered a request of the conversation logged as a success less
\* than 24 hours ago, among its 10 most recent successes, is ranked by
\* decideAdV2 with fatigue penalty 0.5 whenever it is a candidate again.
C27_SameAdFatigue ==
  [][\A h \in PostIds :
       (CallsDecideAd(h) /\ isV2Enabled(env, posts[h].body.appId)) =>
         LET ranking == PostRanking(posts'[h])
         IN  \A i \in 1..Len(requests) :
                ( /\ RecentSuccess(i, posts[h].body.conversationId, clock)
                  /\ requests[i].decidedAdId.has ) =>
                  \A k \in 1..Len(ranking) :
                     requests[i].decidedAdId.val \in DocIdOf(ranking[k].ad) =>
                       ranking[k].fatiguePenalty = FATIGUE_SAME_AD_PENALTY]_vars

\* C28: when a handler calls decideAd for a caller v2 is eligible for, every
\* candidate owned by an advertiser A whose ad answered a request of the
\* conversation logged as a success less than 24 hours ago, among its 10
\* most recent successes, is ranked by decideAdV2 with fatigue penalty at
\* least 0.3.
C28_SameAdvertiserFatigue ==
  [][\A h \in PostIds :
       (CallsDecideAd(h) /\ isV2Enabled(env, posts[h].body.appId)) =>
         LET ranking == PostRanking(posts'[h])
         IN  \A i \in 1..Len(requests) :
                ( /\ RecentSuccess(i, posts[h].body.conversationId, clock)
                  /\ requests[i].decidedAdvertiserId.has ) =>
                  \A k \in 1..Len(ranking) :
                     ranking[k].ad.advertiserId = requests[i].decidedAdvertiserId.val =>
                       ranking[k].fatiguePenalty >= FATIGUE_SAME_ADVERTISER_PENALTY]_vars

\* a conversation without history: the first request was answered by v2
\* with an ad of adv-1 and logged, and the second one, a cooldown later, has
\* called decideAd with that advertiser; both candidates of adv-1 are ranked
\* with penalty 0.3 and the candidate of adv-2 with none
C28_Witness ==
  /\ Len(requests) = 1
  /\ requests[1].createdAt >= 0
  /\ requests[1].algorithmVersion = Some("v2")
  /\ requests[1].decidedAdvertiserId = Some("adv-1")
  /\ posts[1].pc = "done"
  /\ posts[2].pc = "decide"
  /\ posts[2].recentAdvertiserIds = <<"adv-1">>
  /\ LET ranking == PostRanking(posts[2])
     IN  /\ Len(ranking) = 3
         /\ \A k \in 1..3 :
              ranking[k].fatiguePenalty =
                IF ranking[k].ad.advertiserId = "adv-1" THEN 3 ELSE 0

(***************************************************************************)
(* candidateGenerator.ts: generateCandidates, with getActiveAds of         *)
(* adsCache.ts, called by MaxGens concurrent callers that share the        *)
(* catalog cache.  A run is suspended where it awaits the translation call *)
(* or the catalog fetch of a cache miss.  st.calls are the collaborators   *)
(* the run has invoked ("fetch" is the Firestore query of getActiveAds),   *)
(* st.now and st.seen the Date.now() and the cache entry getActiveAds      *)
(* read when it was called.                                                *)
(***************************************************************************)
MaxGens == 2

GenIds == 1..MaxGens

MaxGenTicks == 2

GenIdle ==
  [pc |-> "idle", contextText |-> <<>>, language |-> "", formats |-> <<>>,
   englishText |-> <<>>, keywords |-> <<>>, calls |-> {}, now |-> 0,
   seen |-> NoAdsCache, ads |-> <<>>, result |-> <<>>]

\* from the return of getActiveAds
GenFromAds(st, ads) ==
  [st EXCEPT !.pc = "resolved", !.ads = ads,
             !.result = CandidatesFrom(st.keywords, ads, st.formats)]

\* from the return of toEnglish: tokenize, the empty-keywords exit, and
\* getActiveAds up to its fetch
GenFromEnglish(st, englishText, cache, now) ==
  LET keywords == tokenize(englishText)
      st1 == [st EXCEPT !.englishText = englishText, !.keywords = keywords]
      st2 == [st1 EXCEPT !.calls = @ \cup {"getActiveAds"}, !.now = now,
                         !.seen = cache]
  IN  IF Len(keywords) = 0 THEN [st1 EXCEPT !.pc = "resolved"]
      ELSE IF Fresh(cache, now) THEN GenFromAds(st2, cache.data)
      ELSE [st2 EXCEPT !.pc = "ads", !.calls = @ \cup {"fetch"}]

\* generateCandidates(contextText, language, formats) from its call
GenBegin(args, cache, now) ==
  LET st == [GenIdle EXCEPT !.contextText = args.contextText,
                            !.language = args.language,
                            !.formats = args.formats,
                            !.calls = {"toEnglish"}]
  IN  IF args.language = "eng" THEN GenFromEnglish(st, args.contextText, cache, now)
      ELSE [st EXCEPT !.pc = "translate", !.calls = @ \cup {"translateText"}]

\* the calls the generator is run for
GenCalls ==
  LET eng(ws, formats) == [contextText |-> Words(ws), language |-> "eng",
                           formats |-> formats]
      buy == << <<"B","u","y">>, WordLaptop, WordSale >>
  IN  { eng(<< WordHotel, <<"l","a","p","t","o","p","s">>, <<"b","a","g","s">>,
               <<"l","a","p">> >>, <<>>),
        eng(buy, <<>>),
        eng(buy, <<"lead_gen">>),
        eng(buy, <<"video">>),
        eng(<< <<"i">>, <<"a","m">>, <<"o","k">> >>, <<>>),
        eng(<< <<"o","n","e">>, <<"w","a","r","m">>, <<"d","a","y">> >>, <<>>),
        [contextText |-> JapaneseMessage, language |-> "jpn", formats |-> <<>>] }

\* the first caller makes any of the calls, the later ones the calls that
\* reach the catalog ("Buy laptop sale", the Japanese message)
GenCallsOf(g) ==
  IF g = 1 THEN GenCalls
  ELSE { c \in GenCalls : c.formats = <<>> /\ (Len(c.contextText) = 15 \/ c.language = "jpn") }

\* the cache before the first call: empty, or an earlier snapshot of the
\* catalog (ad-1 only) that expires at TTL_MS
GenCacheStates ==
  { NoAdsCache,
    [has |-> TRUE, data |-> CatalogData(SubSeq(ActiveAdDocs, 1, 1)),
     expiresAt |-> TTL_MS] }

MaxInvalidations == 1

\* a record of the cache kept for the claims, not program state: writer is
\* the caller whose fetch wrote the entry the cache holds (0: the entry that
\* was there before the first call), served[g] the caller whose fetch
\* obtained the snapshot getActiveAds gave caller g (-1: not called yet),
\* stale the callers whose fetch was pending when invalidateAdsCache() was
\* called
NoCacheLog ==
  [writer |-> 0, served |-> [g \in GenIds |-> -1], stale |-> {}, invalidations |-> 0]

\* the record after caller g has run up to state st
LogCalled(log, g, st) ==
  IF "getActiveAds" \in st.calls /\ log.served[g] = -1
  THEN [log EXCEPT !.served[g] = IF "fetch" \in st.calls THEN g ELSE log.writer]
  ELSE log

\* caller g calls generateCandidates; the callers are numbered in the order
\* of their calls
GenCall(g) ==
  /\ gens[g].pc = "idle"
  /\ \A f \in GenIds : f < g => gens[f].pc # "idle"
  /\ \E args \in GenCallsOf(g) \cap genTraffic :
       LET st == GenBegin(args, adsCache, clock)
       IN  /\ gens' = [gens EXCEPT ![g] = st]
           /\ cacheLog' = LogCalled(cacheLog, g, st)
  /\ UNCHANGED <<gateVars, genTraffic>>

\* the translation call answers, or fails and toEnglish returns the text
GenTranslateDone(g) ==
  /\ gens[g].pc = "translate"
  /\ \E ok \in BOOLEAN :
       LET englishText == EnglishOf(gens[g].contextText, ok)
           st == GenFromEnglish(gens[g], englishText, adsCache, clock)
       IN  /\ gens' = [gens EXCEPT ![g] = st]
           /\ cacheLog' = LogCalled(cacheLog, g, st)
  /\ UNCHANGED <<gateVars, genTraffic>>

\* a cache whose entries live for TTL_MS from the answer of the fetch
GenAdsDoneFromAnswer(g) ==
  /\ gens[g].pc = "ads"
  /\ \/ LET data == CatalogData(adsDb)
        IN  /\ adsCache' = [has |-> TRUE, data |-> data,
                            expiresAt |-> clock + TTL_MS]
            /\ gens' = [gens EXCEPT ![g] = GenFromAds(@, data)]
            /\ cacheLog' = [cacheLog EXCEPT !.writer = g]
     \/ /\ gens' = [gens EXCEPT ![g].pc = "rejected"]
        /\ UNCHANGED <<adsCache, cacheLog>>
  /\ UNCHANGED <<call, gate, returns, v2, v1, advertiserCache, adsDb, clock, ticks, trace, genTraffic>>

\* the Firestore query of getActiveAds answers (the cache entry is written)
\* or throws
GenAdsDone(g) ==
  /\ gens[g].pc = "ads"
  /\ \/ LET data == CatalogData(adsDb)
        IN  /\ adsCache' = [has |-> TRUE, data |-> data,
                            expiresAt |-> gens[g].now + TTL_MS]
            /\ gens' = [gens EXCEPT ![g] = GenFromAds(@, data)]
            /\ cacheLog' = [cacheLog EXCEPT !.writer = g]
     \/ /\ gens' = [gens EXCEPT ![g].pc = "rejected"]
        /\ UNCHANGED <<adsCache, cacheLog>>
  /\ UNCHANGED <<call, gate, returns, v2, v1, advertiserCache, adsDb, clock, ticks, trace, genTraffic>>

\* time passes, one lifetime of a cache entry at a time
GenTick ==
  /\ ticks < MaxGenTicks
  /\ \E g \in GenIds : gens[g].pc \in {"idle", "translate", "ads"}
  /\ clock' = clock + TTL_MS
  /\ ticks' = ticks + 1
  /\ UNCHANGED <<call, gate, returns, v2, v1, adsCache, advertiserCache, adsDb, trace, genVars>>

\* half a lifetime passes
GenHalfTick ==
  /\ ticks < MaxGenTicks
  /\ \E g \in GenIds : gens[g].pc \in {"idle", "translate", "ads"}
  /\ clock' = clock + TTL_MS \div 2
  /\ ticks' = ticks + 1
  /\ UNCHANGED <<call, gate, returns, v2, v1, adsCache, advertiserCache, adsDb, trace, genVars>>

\* invalidateAdsCache(), called while some caller has not finished and
\* there is an entry to drop or a fetch pending
GenInvalidate ==
  /\ cacheLog.invalidations < MaxInvalidations
  /\ \E g \in GenIds : gens[g].pc \in {"idle", "translate", "ads"}
  /\ adsCache.has \/ \E g \in GenIds : gens[g].pc = "ads"
  /\ adsCache' = NoAdsCache
  /\ cacheLog' = [cacheLog EXCEPT !.writer = 0,
                                  !.invalidations = @ + 1,
                                  !.stale = @ \cup {g \in GenIds : gens[g].pc = "ads"}]
  /\ UNCHANGED <<call, gate, returns, v2, v1, advertiserCache, adsDb, clock, ticks, trace, gens,
                 genTraffic>>

(***************************************************************************)
(* Claims about generateCandidates and the catalog cache.                  *)
(***************************************************************************)
\* the run of caller g has scored the ads getActiveAds gave it
GenScored(g) ==
  /\ gens[g].pc = "resolved"
  /\ "getActiveAds" \in gens[g].calls

\* C13: generateCandidates emits at most one candidate per catalog item.  An
\* item whose tag score is > 0 is emitted with source "tag" and its tag
\* score, whatever its text score; an item whose tag score is 0 and whose
\* text score is > 0 is emitted with source "text" and its text score; an
\* item with both scores 0 is not emitted; nothing else is emitted.
C13_TagDominates ==
  \A g \in GenIds :
    GenScored(g) =>
      LET st == gens[g]
          ads == FilterFormats(st.ads, st.formats)
          Emitted(ad) == { i \in 1..Len(st.result) : st.result[i].ad = ad }
      IN  /\ \A i \in 1..Len(st.result) : st.result[i].ad \in SeqRange(ads)
          /\ \A k \in 1..Len(ads) :
               LET tagScore == scoreTagMatch(ads[k], st.keywords)
                   textScore == scoreTextMatch(ads[k], st.keywords)
               IN  /\ Cardinality(Emitted(ads[k])) <= 1
                   /\ tagScore > 0 =>
                        \E i \in Emitted(ads[k]) :
                          /\ st.result[i].matchSource = "tag"
                          /\ st.result[i].score = tagScore
                   /\ (tagScore = 0 /\ textScore > 0) =>
                        \E i \in Emitted(ads[k]) :
                          /\ st.result[i].matchSource = "text"
                          /\ st.result[i].score = textScore
                   /\ (tagScore = 0 /\ textScore = 0) => Emitted(ads[k]) = {}

\* an item with one tag match (1.0) and three text matches (1.5) emitted as
\* a tag match with score 1.0
C13_Witness ==
  \E g \in GenIds :
    /\ GenScored(g)
    /\ \E i \in 1..Len(gens[g].result) :
         /\ gens[g].result[i].matchSource = "tag"
         /\ gens[g].result[i].score = 2
         /\ scoreTextMatch(gens[g].result[i].ad, gens[g].keywords) = 3

\* C14: the keywords of generateCandidates are the whitespace-separated
\* tokens of the lower-cased English text that are longer than 2 characters;
\* when there is none the call returns the empty list having invoked nothing
\* but the translation: getActiveAds is not called and no catalog fetch is
\* issued.
C14_ShortTokensDropped ==
  \A g \in GenIds :
    gens[g].pc \in {"ads", "resolved", "rejected"} =>
      LET st == gens[g]
          words == SplitSpaces(toLowerCase(st.englishText))
          Kept(word) == ~(Len(word) <= 2)
      IN  /\ st.keywords = SelectSeq(words, Kept)
          /\ \A i \in 1..Len(st.keywords) :
               /\ Len(st.keywords[i]) >= 3
               /\ \A j \in 1..Len(st.keywords[i]) : ~IsSpace(st.keywords[i][j])
          /\ Len(st.keywords) = 0 =>
               /\ st.pc = "resolved"
               /\ st.result = <<>>
               /\ st.calls \subseteq {"toEnglish", "translateText"}

\* a Japanese message whose translation failed: the tokens of the original
\* text ("pc", "~", "^@") are all dropped and the call returns the empty list
C14_Witness ==
  \E g \in GenIds :
    /\ gens[g].pc = "resolved"
    /\ gens[g].language = "jpn"
    /\ gens[g].englishText = JapaneseMessage
    /\ gens[g].keywords = <<>>
    /\ gens[g].calls = {"toEnglish", "translateText"}

\* what getActiveAds did, given the entry it read
C16_HitOrFetch ==
  \A g \in GenIds :
    "getActiveAds" \in gens[g].calls =>
      LET st == gens[g]
          hit == st.seen.has /\ st.seen.expiresAt > st.now
      IN  /\ hit <=> "fetch" \notin st.calls
          /\ hit => st.pc = "resolved" /\ st.ads = st.seen.data

\* C16: while an unexpired entry exists (expiresAt > now) getActiveAds
\* returns the cached snapshot without a catalog fetch; when there is no
\* entry or it has expired the call issues a fetch, whether or not another
\* caller's fetch is pending, and on its answer writes the cache entry with
\* the fetched snapshot and expiry = the call's start time + 60 s; nothing
\* else writes the cache.
C16_ReadThrough ==
  /\ []C16_HitOrFetch
  /\ [][ /\ \A g \in GenIds :
              (gens[g].pc = "ads" /\ gens'[g].pc = "resolved") =>
                 /\ adsCache' = [has |-> TRUE, data |-> CatalogData(adsDb),
                                 expiresAt |-> gens[g].now + 60 * 1000]
                 /\ gens'[g].ads = CatalogData(adsDb)
         /\ (\A g \in GenIds : ~(gens[g].pc = "ads" /\ gens'[g].pc = "resolved"))
              => adsCache' = adsCache ]_vars

\* two callers that both missed, their two fetches pending at the same time,
\* the second of them on an entry that expired at the instant of its call
C16_Witness ==
  /\ gens[1].pc = "ads"
  /\ gens[2].pc = "ads"
  /\ gens[2].seen.has
  /\ gens[2].seen.expiresAt = gens[2].now

\* text k occurs in text s as a run of consecutive characters
OccursIn(s, k) == \E p \in 1..(Len(s) - Len(k) + 1) : SubSeq(s, p, p + Len(k) - 1) = k

\* the keywords (with repetitions) that are equal to a lower-cased tag of
\* the ad, and those that occur in its lower-cased title and description
TagTokens(ad, keywords) ==
  { k \in 1..Len(keywords) :
      \E t \in 1..Len(ad.tags) : toLowerCase(ad.tags[t]) = keywords[k] }

TextTokens(ad, keywords) ==
  { k \in 1..Len(keywords) :
      OccursIn(toLowerCase(ad.title) \o <<" ">> \o toLowerCase(ad.description),
               keywords[k]) }

\* C25: the score of a candidate of source "tag" is the number of kept
\* tokens equal to one of the item's lower-cased tags, and the score of a
\* candidate of source "text" is 0.5 times the number of kept tokens that
\* occur in the item's lower-cased title and description (scores are in
\* halves: 2 and 1 a token).  An item none of whose tags equals a token is
\* not emitted with source "tag", though a token is part of a tag or a tag
\* part of a token.
C25_ExactTagTokens ==
  \A g \in GenIds :
    GenScored(g) =>
      LET st == gens[g]
          ads == FilterFormats(st.ads, st.formats)
      IN  /\ \A i \in 1..Len(st.result) :
               LET c == st.result[i]
               IN  /\ c.matchSource \in {"tag", "text"}
                   /\ c.matchSource = "tag" =>
                        c.score = 2 * Cardinality(TagTokens(c.ad, st.keywords))
                   /\ c.matchSource = "text" =>
                        c.score = Cardinality(TextTokens(c.ad, st.keywords))
                   /\ c.score > 0
          /\ \A k \in 1..Len(ads) :
               TagTokens(ads[k], st.keywords) = {} =>
                 \A i \in 1..Len(st.result) :
                    st.result[i].ad = ads[k] => st.result[i].matchSource = "text"

\* "hotel laptops bags lap": the item tagged laptop and sale is not emitted
\* (laptops and lap are not its tags); "Buy laptop sale": the item titled
\* Laptops is emitted with source "text" and score 0.5
C25_Witness ==
  /\ GenScored(1) /\ GenScored(2)
  /\ <<"l","a","p">> \in SeqRange(gens[1].keywords)
  /\ <<"l","a","p","t","o","p","s">> \in SeqRange(gens[1].keywords)
  /\ \E k \in 1..Len(gens[1].ads) :
       /\ WordLaptop \in SeqRange(gens[1].ads[k].tags)
       /\ \A i \in 1..Len(gens[1].result) : gens[1].result[i].ad # gens[1].ads[k]
  /\ \E i \in 1..Len(gens[2].result) :
       /\ gens[2].result[i].matchSource = "text"
       /\ gens[2].result[i].score = 1

\* caller g was served from the cache, and f is the caller whose fetch had
\* written the entry
ServedFromCache(g, f) ==
  /\ cacheLog.served[g] = f
  /\ f # g
  /\ f # -1

\* C29: once invalidateAdsCache() has been called, no getActiveAds call is
\* served from the cache with a snapshot whose fetch had been issued before
\* the invalidation: no caller is given the entry written by a fetch that
\* was pending when the cache was invalidated.
C29_InvalidationSticks ==
  \A g \in GenIds : \A f \in cacheLog.stale : ~ServedFromCache(g, f)

\* the call at which getActiveAds of caller f started, 0 for the entry the
\* cache held before the first call (it expires at TTL_MS)
FetchStart(f) == IF f = 0 THEN 0 ELSE gens[f].now

MaxTrackCalls == 3

NullId == [has |-> FALSE, val |-> <<>>]

TextNull == <<"n","u","l","l">>

TextUnknown == <<"u","n","k","n","o","w","n">>

\* `${ad.id}:${requestId}`
ImpressionKey(adId, requestId) ==
  adId \o <<":">> \o (IF requestId.has THEN requestId.val ELSE TextNull)

\* the check is skipped
AlreadySentNever(sentImpressions, key) == FALSE

\* sentImpressions.has(key)
AlreadySent(sentImpressions, key) == key \in sentImpressions

\* the EventPayload of the three functions
EventPayload(type, adId, requestId) ==
  [type |-> type, adId |-> adId,
   requestId |-> IF requestId.has THEN requestId.val ELSE TextUnknown]

SdkIdle == [initialized |-> FALSE, sentImpressions |-> {}, calls |-> <<>>, events |-> <<>>]

TrackCall(type, adId, requestId, status) ==
  [type |-> type, adId |-> adId, requestId |-> requestId, status |-> status]

\* the call throws "Tracker not initialized"
TrackThrows(s, type, adId, requestId) ==
  [s EXCEPT !.calls = Append(@, TrackCall(type, adId, requestId, "threw"))]

\* await sendEvent(payload): the POST is issued and the call awaits its answer
TrackSends(s, type, adId, requestId) ==
  [s EXCEPT !.calls = Append(@, TrackCall(type, adId, requestId, "pending")),
            !.events = Append(@, [payload |-> EventPayload(type, adId, requestId),
                                  call |-> Len(s.calls) + 1])]

\* the ads and request ids the tracker is called with
TrackAdIds == { <<"a","d","1">>, <<"a","d","2">> }

TrackRequestIds == { Some(<<"r","1">>), NullId }

\* SDK.initialize: initClient and initTracker
SdkInitialize ==
  /\ ~sdk.initialized
  /\ sdk' = [sdk EXCEPT !.initialized = TRUE]

TrackImpression ==
  /\ Len(sdk.calls) < MaxTrackCalls
  /\ \E adId \in TrackAdIds, requestId \in TrackRequestIds :
       LET key == ImpressionKey(adId, requestId)
       IN  sdk' =
             IF ~sdk.initialized THEN TrackThrows(sdk, "impression", adId, requestId)
             ELSE IF AlreadySent(sdk.sentImpressions, key)
               THEN [sdk EXCEPT !.calls = Append(@, TrackCall("impression", adId,
                                                              requestId, "resolved"))]
             ELSE [TrackSends(sdk, "impression", adId, requestId)
                     EXCEPT !.sentImpressions = @ \cup {key}]

TrackClick ==
  /\ Len(sdk.calls) < MaxTrackCalls
  /\ \E adId \in {<<"a","d","1">>}, requestId \in TrackRequestIds :
       sdk' = IF ~sdk.initialized THEN TrackThrows(sdk, "click", adId, requestId)
              ELSE TrackSends(sdk, "click", adId, requestId)

TrackSubmit ==
  /\ Len(sdk.calls) < MaxTrackCalls
  /\ \E adId \in {<<"a","d","1">>}, requestId \in {Some(<<"r","1">>)} :
       sdk' = IF ~sdk.initialized THEN TrackThrows(sdk, "submit", adId, requestId)
              ELSE TrackSends(sdk, "submit", adId, requestId)

\* the backend answers the POST of call c, or the POST fails: the call ends
SendEventDone(c) ==
  /\ c \in 1..Len(sdk.calls)
  /\ sdk.calls[c].status = "pending"
  /\ \E outcome \in {"resolved", "rejected"} :
       sdk' = [sdk EXCEPT !.calls[c].status = outcome]

(***************************************************************************)
(* Claims about the event tracker.                                         *)
(***************************************************************************)
\* the events of the given type sent for calls with the given arguments
EventsOf(type, adId, requestId) ==
  { i \in 1..Len(sdk.events) :
      /\ sdk.events[i].payload.type = type
      /\ sdk.calls[sdk.events[i].call].adId = adId
      /\ sdk.calls[sdk.events[i].call].requestId = requestId }

\* the calls of the given type made after initialization
CallsOf(type, adId, requestId) ==
  { c \in 1..Len(sdk.calls) :
      /\ sdk.calls[c] = TrackCall(type, adId, requestId, sdk.calls[c].status)
      /\ sdk.calls[c].status # "threw" }

\* C18: over any sequence of tracker calls, overlapping ones included, at
\* most one impression event is sent for each pair of ad id and requestId
\* (exactly one once an impression of the pair has been tracked after
\* initialization), while every click and every submit call made after
\* initialization sends its event.
C18_ImpressionOnce ==
  \A adId \in TrackAdIds, requestId \in TrackRequestIds :
    /\ Cardinality(EventsOf("impression", adId, requestId)) <= 1
    /\ CallsOf("impression", adId, requestId) # {} =>
         Cardinality(EventsOf("impression", adId, requestId)) = 1
    /\ \A type \in {"click", "submit"} :
         Cardinality(EventsOf(type, adId, requestId)) =
           Cardinality(CallsOf(type, adId, requestId))

\* three overlapping calls: two impressions of one pair, both made before
\* the first was answered, with one event, and a click
C18_Witness ==
  /\ Len(sdk.calls) = 3
  /\ \A c \in 1..2 : sdk.calls[c] = TrackCall("impression", <<"a","d","1">>,
                                              Some(<<"r","1">>), sdk.calls[c].status)
  /\ sdk.calls[1].status = "pending"
  /\ sdk.calls[2].status = "resolved"
  /\ sdk.calls[3].type = "click"
  /\ Len(sdk.events) = 2

(***************************************************************************)
(* Specifications: one per component, the other components at rest.       *)
(***************************************************************************)
\* The state before any call: the arguments of the component under study are
\* drawn from its input sets, every other component is at rest.
Init(component) ==
  /\ contextText \in (IF component = "scorer" THEN Messages ELSE {<<>>})
  /\ scorerDone = {}
  /\ scored = NotScored
  /\ matched = NotMatched
  /\ rescored = NotRescored
  /\ env \in (IF component = "flags" THEN Environments
              ELSE IF component = "gate" THEN GateEnvironments
              ELSE IF component = "post" THEN PostEnvironments
              ELSE IF component = "fatigue"
                THEN {[EnvDefault EXCEPT !.V2_ENABLED = EnvSet(StrTrue)]}
              ELSE {EnvDefault})
  /\ callerId \in (IF component = "flags" THEN AppIds ELSE {<<>>})
  /\ flagsCalled = FALSE
  /\ v2Enabled = FALSE
  /\ rollout = <<>>
  /\ rankerIn \in (IF component = "ranker"
                     THEN [candidates : RankerCandidates,
                           recentAdIds : RecentAdIdLists,
                           recentAdvertiserIds : RecentAdvertiserIdLists]
                     ELSE {[candidates |-> <<>>, recentAdIds |-> <<>>,
                            recentAdvertiserIds |-> <<>>]})
  /\ rankerOut = NotRanked
  /\ explorerIn \in (IF component = "explorer"
                       THEN [ranked : {RankedList(n) : n \in 0..MaxRanked},
                             epsilon : Epsilons,
                             random : RandomTapes]
                       ELSE {[ranked |-> <<>>, epsilon |-> EPSILON, random |-> <<0, 0>>]})
  /\ explorerOut = NotSelected
  /\ call \in (IF component = "gate" THEN GateCalls ELSE {NoCall})
  /\ gate = GateIdle
  /\ returns = <<>>
  /\ v2 = V2Idle
  /\ v1 = V1Idle
  /\ \E c \in (IF component = "gate" THEN CacheStates
               ELSE IF component \in {"generator", "cache"}
                 THEN {[ads |-> a, advertisers |-> NoAdvertiserCache] : a \in GenCacheStates}
               ELSE {[ads |-> NoAdsCache, advertisers |-> NoAdvertiserCache]}) :
       adsCache = c.ads /\ advertiserCache = c.advertisers
  /\ adsDb \in (IF component = "gate" THEN {ActiveAdDocs, <<>>} ELSE {ActiveAdDocs})
  /\ clock = 0
  /\ ticks = 0
  /\ trace = <<>>
  /\ posts = [h \in PostIds |-> PostIdle]
  /\ requests \in (IF component = "fatigue" THEN Histories ELSE {<<>>})
  /\ traffic = (IF component = "post" THEN PostBodies
                ELSE IF component = "fatigue" THEN FatigueBodies
                ELSE {})
  /\ gens = [g \in GenIds |-> GenIdle]
  /\ genTraffic = (IF component = "generator" THEN GenCalls
                   ELSE IF component = "cache"
                     THEN {c \in GenCalls : c.language = "eng" /\ c.formats = <<>>}
                   ELSE {})
  /\ cacheLog = NoCacheLog
  /\ sdk = SdkIdle

ScorerNext ==
  \/ Score /\ UNCHANGED <<flagsVars, rankerVars, explorerVars, gateVars, postVars, genVars, sdkVars>>
  \/ Match /\ UNCHANGED <<flagsVars, rankerVars, explorerVars, gateVars, postVars, genVars, sdkVars>>
  \/ Rescore /\ UNCHANGED <<flagsVars, rankerVars, explorerVars, gateVars, postVars, genVars, sdkVars>>

SpecScorer == Init("scorer") /\ [][ScorerNext]_vars

FlagsNext ==
  \/ CallIsV2Enabled /\ UNCHANGED <<scorerVars, rankerVars, explorerVars, gateVars, postVars, genVars, sdkVars>>
  \/ RolloutCall /\ UNCHANGED <<scorerVars, rankerVars, explorerVars, gateVars, postVars, genVars, sdkVars>>

SpecFlags == Init("flags") /\ [][FlagsNext]_vars

RankerNext == Rank /\ UNCHANGED <<scorerVars, flagsVars, explorerVars, gateVars, postVars, genVars, sdkVars>>

SpecRanker == Init("ranker") /\ [][RankerNext]_vars

ExplorerNext == Select /\ UNCHANGED <<scorerVars, flagsVars, rankerVars, gateVars, postVars, genVars, sdkVars>>

SpecExplorer == Init("explorer") /\ [][ExplorerNext]_vars

GateRest == UNCHANGED <<scorerVars, flagsVars, rankerVars, explorerVars, postVars, genVars, sdkVars>>

GateNext ==
  \/ GateStart /\ GateRest
  \/ TimerFires /\ GateRest
  \/ V2TranslateDone /\ GateRest
  \/ V2AdsDone /\ GateRest
  \/ V2AdvertiserDone /\ GateRest
  \/ V1TranslateDone /\ GateRest
  \/ V1AdsDone /\ GateRest
  \/ V1AdvertiserDone /\ GateRest
  \/ Tick /\ GateRest

SpecGate == Init("gate") /\ [][GateNext]_vars

PostRest == UNCHANGED <<scorerVars, flagsVars, rankerVars, explorerVars, genVars, sdkVars>>

PostNext ==
  \/ \E h \in PostIds : PostReceive(h) /\ PostRest
  \/ \E h \in PostIds : PostQueryDone(h) /\ PostRest
  \/ \E h \in PostIds : PostDecideDone(h) /\ PostRest
  \/ \E h \in PostIds : PostAddDone(h) /\ PostRest
  \/ PostTick /\ PostRest

SpecPost == Init("post") /\ [][PostNext]_vars

\* the same handlers, for the requests of one conversation that has a history
SpecFatigue == Init("fatigue") /\ [][PostNext]_vars

GenRest == UNCHANGED <<scorerVars, flagsVars, rankerVars, explorerVars, postVars, sdkVars>>

GenNext ==
  \/ \E g \in GenIds : GenCall(g) /\ GenRest
  \/ \E g \in GenIds : GenTranslateDone(g) /\ GenRest
  \/ \E g \in GenIds : GenAdsDone(g) /\ GenRest
  \/ GenTick /\ GenRest

SpecGenerator == Init("generator") /\ [][GenNext]_vars

\* the callers of the catalog cache over one lifetime of an entry, their
\* messages in English, with invalidateAdsCache() called among them
CacheNext ==
  \/ \E g \in GenIds : GenCall(g) /\ GenRest
  \/ \E g \in GenIds : GenAdsDone(g) /\ GenRest
  \/ GenHalfTick /\ GenRest
  \/ GenInvalidate /\ GenRest

SpecCache == Init("cache") /\ [][CacheNext]_vars

SdkRest ==
  UNCHANGED <<scorerVars, flagsVars, rankerVars, explorerVars, gateVars, postVars, genVars>>

SdkNext ==
  \/ SdkInitialize /\ SdkRest
  \/ TrackImpression /\ SdkRest
  \/ TrackClick /\ SdkRest
  \/ TrackSubmit /\ SdkRest
  \/ \E c \in 1..MaxTrackCalls : SendEventDone(c) /\ SdkRest

SpecTracker == Init("tracker") /\ [][SdkNext]_vars

\* Input/output that is awaited completes, with an answer or an error, and the
\* event loop then runs its callback.
SpecGateFair ==
  /\ Init("gate")
  /\ [][GateNext]_vars
  /\ WF_vars(V2TranslateDone /\ GateRest)
  /\ WF_vars(V2AdsDone /\ GateRest)
  /\ WF_vars(V2AdvertiserDone /\ GateRest)

=============================================================================
